---- MODULE Spec2Model ----
(***************************************************************************)
(* co-citation-assist: the provider merge (apis/composite.py), the         *)
(* backward/forward co-citation analysis (analyzer.py), the command line   *)
(* entry (cli.py) and the network generator (network_generator.py).        *)
(*                                                                         *)
(* Python values are encoded uniformly so that TLC can compare them:       *)
(*   str            a sequence of character codes                          *)
(*   Optional[T]    <<>> for None, <<v>> for a value v                     *)
(*   list           a sequence;  set  a set;  dict  a function plus, where *)
(*                  the code iterates it, the sequence of its keys         *)
(***************************************************************************)
EXTENDS Integers, Sequences, FiniteSets, TLC

VARIABLES
    \* ---- CompositeAPI: one call of get_references/get_citations[_with_stats]
    m_call,        \* [method, with_stats]: which of the four entry points runs
    adapter_out,   \* per provider: Optional outcome of its adapter call
    future,        \* per provider: Optional result of its _fetch_from_api future
    results,       \* the dict `results` filled by the as_completed loop
    m_ret,         \* Optional outcome of the call: [raised, merged, stats]
    \* ---- CocitationAnalyzer and its api_client
    initial_dois,       \* self.initial_dois
    initial_mag_ids,    \* self.initial_mag_ids
    all_identifiers,    \* self.all_identifiers
    api_client,         \* type(self.api_client): "CompositeAPI" or "other"
    api_has_stats,      \* hasattr(self.api_client, 'get_references_with_stats')
    api_out,            \* per seed and direction: Optional outcome of the client call
    a_pc,               \* "idle", "loop", "done" or "aborted" (an exception escaped)
    a_mode,             \* "analysis" (run_analysis) or "base" (run_base_collection)
    min_references_n,   \* argument N of run_analysis
    min_citations_m,    \* argument M of run_analysis
    pending,            \* seeds the for loop has not reached yet
    fetch_calls,        \* client calls made by the current run
    summary_data,       \* list of SummaryRecord
    all_references,     \* defaultdict(list), as the list of its items in insertion order
    all_citations,      \* defaultdict(list), likewise
    raw_data,           \* dict seed -> {'references', 'citations'}
    backward_results,   \* list of {'novel_doi', 'initial_citing_doi'}
    forward_results,    \* list of {'novel_doi', 'initial_cited_doi'}
    \* ---- cli.py: the `run` command
    cli_pc,        \* "lib" when the analyzer is used without the command line, else
                   \* "start", "outdir", "input", "init", "run", "running", "write", "exit"
    cli_args,      \* [ris_file, dois, n_threshold, m_threshold, base_only]
    exit_code,     \* Optional exit code of the command
    client_built,  \* CompositeAPI() has been constructed
    \* ---- a caller of run_analysis that calls it a second time
    prev,          \* what the first call returned
    \* ---- a caller of generate_network that calls it a second time
    g_prev,        \* the network the first call returned
    \* ---- network_generator.py: one call of NetworkGenerator.generate_network
    g_pc,                   \* "idle", "call", "mapped", "linked", "fetched", "done", "raised"
    citations_data,         \* the raw-data map, as the list of its items in key order
    g_args,                 \* [mode, min_strength, max_nodes, include_cociting_nodes, amsler_lambda]
    g_all_identifiers,      \* all_identifiers of generate_network, after the node limit
    identifier_to_node_id,  \* self.identifier_to_node_id
    node_counter,           \* self.node_counter
    links,                  \* list of NetworkLink
    metadata_queries,       \* the identifiers the metadata provider was asked for, in order
    node_metadata,          \* self.node_metadata
    network_data,           \* the returned {'network': {'items', 'links'}}
    \* ---- apis/openalex.py: one call of OpenAlexAPI.get_references / get_citations
    oa_pc,         \* "idle", "call", "retry", "done"
    oa_method,     \* "references" or "citations"
    oa_attempt,    \* `attempt` of the retry loop
    oa_requests,   \* what each fetch from the provider did, in order
    oa_sleeps,     \* the delays slept before the retries, in half seconds
    oa_ret,        \* Optional outcome of the call
    \* ---- analyzer.py: one call of _fetch_data_for_identifier, step by step
    f_pc,          \* "idle", "references", "after_references", "citations",
                   \* "after_citations", "done"
    f_args,        \* [fetch_references, fetch_citations, has_stats]
    f_client,      \* what the client did when asked, per direction (Optional)
    f_locals,      \* [references, citations, api_contributions], each Optional
    f_log          \* the client calls and sleeps of the call, in order

mergeVars == <<m_call, adapter_out, future, results, m_ret>>
seedVars == <<initial_dois, initial_mag_ids, all_identifiers, api_has_stats>>
runVars == <<a_pc, a_mode, min_references_n, min_citations_m, pending, fetch_calls,
             summary_data, all_references, all_citations, raw_data,
             backward_results, forward_results>>
anaVars == <<seedVars, api_client, api_out, runVars>>
cliVars == <<cli_pc, cli_args, exit_code, client_built>>
callerVars == <<prev, g_prev>>
netVars == <<g_pc, citations_data, g_args, g_all_identifiers, identifier_to_node_id,
            node_counter, links, metadata_queries, node_metadata, network_data>>
oaVars == <<oa_pc, oa_method, oa_attempt, oa_requests, oa_sleeps, oa_ret>>
fetchVars == <<f_pc, f_args, f_client, f_locals, f_log>>
vars == <<mergeVars, anaVars, cliVars, callerVars, netVars, oaVars, fetchVars>>
\* what a component leaves alone: the other components
notMerge == <<anaVars, cliVars, callerVars, netVars, oaVars, fetchVars>>
notAnalyzer == <<mergeVars, callerVars, netVars, oaVars, fetchVars>>
notCli == <<mergeVars, callerVars, netVars, oaVars, fetchVars>>
notNet == <<mergeVars, anaVars, cliVars, callerVars, oaVars, fetchVars>>
notOpenAlex == <<mergeVars, anaVars, cliVars, callerVars, netVars, fetchVars>>
notFetch == <<mergeVars, anaVars, cliVars, callerVars, netVars, oaVars>>

(***************************************************************************)
(* Bounds of the model.                                                    *)
(***************************************************************************)
NumIds == 4          \* identifiers in the universe
MaxListLen == 2      \* length of a list a provider returns
MaxSeeds == 2        \* seeds of an analysis
MaxThreshold == 2    \* largest threshold N or M
MaxFetched == 3      \* identifiers the client returns in all during one run
MaxKeys == 3         \* keys of the raw-data map given to generate_network
MaxRichKeys == 2     \* keys of a map whose fields range over every list and null
MaxDataSize == 3     \* list entries plus null or absent fields in that map
MaxNodes == 2        \* largest max_nodes
MaxStrength == 2     \* largest min_strength

(***************************************************************************)
(* Identifiers: "10.1/b", "2000001", "10.1/a", "10.10/a", "9" as character *)
(* codes ('.' 46, '/' 47, '0' 48 .. '9' 57, 'a' 97, 'b' 98).               *)
(***************************************************************************)
IdList ==
    << <<49, 48, 46, 49, 47, 98>>,
       <<50, 48, 48, 48, 48, 48, 49>>,
       <<49, 48, 46, 49, 47, 97>>,
       <<49, 48, 46, 49, 48, 47, 97>>,
       <<57>> >>

Ids == {IdList[i] : i \in 1..NumIds}

None == <<>>
Some(v) == <<v>>
Val(o) == o[1]

Range(s) == {s[i] : i \in 1..Len(s)}
SeqsUpTo(S, n) == UNION {[1..k -> S] : k \in 0..n}

\* list(some_set): a list holding every element once, in the set's iteration order
ListsOf(S) == {s \in [1..Cardinality(S) -> S] : Range(s) = S}

(***************************************************************************)
(* apis/composite.py                                                       *)
(***************************************************************************)
Providers == {"OpenAlex", "SemanticScholar"}
Methods == {"references", "citations"}

\* What a provider adapter's get_references / get_citations does: return a list
\* (duplicates allowed) or raise.
Returned(l) == [raises |-> FALSE, value |-> l]
Raised == [raises |-> TRUE, value |-> <<>>]
AdapterOutcomes == {Returned(l) : l \in SeqsUpTo(Ids, MaxListLen)} \cup {Raised}

\* _fetch_from_api without its try/except: the adapter's exception escapes
fetch_from_api_nocatch(out) == out

\* _fetch_from_api: the adapter's list, or [] when the adapter raised
fetch_from_api(out) == IF out.raises THEN Returned(<<>>) ELSE out

\* set(x) if x else set()
to_set(l) == IF Len(l) > 0 THEN Range(l) ELSE {}

\* the statistics dict with every count taken over the lists instead of the sets
merge_stats_lists(oa, ss) ==
    [OpenAlex |-> Len(oa),
     SemanticScholar |-> Len(ss),
     Overlap |-> Cardinality(to_set(oa) \cap to_set(ss)),
     OpenAlex_unique |-> Cardinality(to_set(oa) \ to_set(ss)),
     SemanticScholar_unique |-> Cardinality(to_set(ss) \ to_set(oa)),
     Total_unique |-> Len(oa) + Len(ss)]

\* the statistics dict of get_*_with_stats
merge_stats(oa, ss) ==
    LET openalex_set == to_set(oa)
        semantic_scholar_set == to_set(ss)
    IN  [OpenAlex |-> Cardinality(openalex_set),
         SemanticScholar |-> Cardinality(semantic_scholar_set),
         Overlap |-> Cardinality(openalex_set \cap semantic_scholar_set),
         OpenAlex_unique |-> Cardinality(openalex_set \ semantic_scholar_set),
         SemanticScholar_unique |-> Cardinality(semantic_scholar_set \ openalex_set),
         Total_unique |-> Cardinality(openalex_set \cup semantic_scholar_set)]

\* list(merged): the lists list(openalex_set | semantic_scholar_set) can be
merged_lists(oa, ss) == ListsOf(to_set(oa) \cup to_set(ss))

\* What a CompositeAPI method does, seen from its caller: it never raises (each
\* provider call is caught) and its list is list(set), free of duplicates.
CompositeOutcomes ==
    {o \in AdapterOutcomes : ~o.raises /\ Cardinality(Range(o.value)) = Len(o.value)}

\* results.get(name, []) reading the entry of the other provider
results_get_other(p) ==
    LET q == CHOOSE r \in Providers : r # p
    IN  IF results[q] = None THEN <<>> ELSE Val(results[q])

\* results.get(name, [])
results_get(p) == IF results[p] = None THEN <<>> ELSE Val(results[p])

MergeInit ==
    /\ m_call \in [method : Methods, with_stats : BOOLEAN]
    /\ adapter_out = [p \in Providers |-> None]
    /\ future = [p \in Providers |-> None]
    /\ results = [p \in Providers |-> None]
    /\ m_ret = None

\* A worker thread runs _fetch_from_api(api, api_name, identifier, method) to
\* completion: the adapter call of m_call.method and the try/except around it.
FetchFromApi(p) ==
    /\ m_ret = None
    /\ future[p] = None
    /\ \E out \in AdapterOutcomes :
          /\ adapter_out' = [adapter_out EXCEPT ![p] = Some(out)]
          /\ future' = [future EXCEPT ![p] = Some(fetch_from_api(out))]
    /\ UNCHANGED <<m_call, results, m_ret, notMerge>>

\* One turn of `for future in as_completed(futures)`: future.result() re-raises
\* what the worker raised, otherwise results[api_name] = dois.
Collect(p) ==
    /\ m_ret = None
    /\ future[p] # None
    /\ results[p] = None
    /\ IF Val(future[p]).raises
         THEN /\ m_ret' = Some([raised |-> TRUE, merged |-> <<>>, stats |-> None])
              /\ UNCHANGED results
         ELSE /\ results' = [results EXCEPT ![p] = Some(Val(future[p]).value)]
              /\ UNCHANGED m_ret
    /\ UNCHANGED <<m_call, adapter_out, future, notMerge>>

\* After the executor block: merge the two lists and return (with the stats
\* dict for the *_with_stats methods, the bare list from _merge_results else).
MergeReturn ==
    /\ m_ret = None
    /\ \A p \in Providers : results[p] # None
    /\ LET openalex_results == results_get("OpenAlex")
           semantic_scholar_results == results_get("SemanticScholar")
       IN  \E l \in merged_lists(openalex_results, semantic_scholar_results) :
              m_ret' = Some([raised |-> FALSE,
                             merged |-> l,
                             stats |-> IF m_call.with_stats
                                         THEN Some(merge_stats(openalex_results,
                                                               semantic_scholar_results))
                                         ELSE None])
    /\ UNCHANGED <<m_call, adapter_out, future, results, notMerge>>

MergeNext ==
    \/ \E p \in Providers : FetchFromApi(p)
    \/ \E p \in Providers : Collect(p)
    \/ MergeReturn

(***************************************************************************)
(* analyzer.py                                                             *)
(***************************************************************************)
Directions == {"references", "citations"}

\* str.isdigit()
isdigit(id) == Len(id) > 0 /\ \A i \in 1..Len(id) : id[i] \in 48..57

\* The stats dict a stats-capable client hands back with the list l: the dict
\* CompositeAPI builds when one provider delivers l and the other nothing.
client_stats(l) == merge_stats(l, <<>>)

\* identifiers the client has returned so far
RECURSIVE SumLen(_, _)
SumLen(f, S) ==
    IF S = {} THEN 0
    ELSE LET x == CHOOSE y \in S : TRUE
         IN  (IF f[x] = None THEN 0 ELSE Len(Val(f[x]).value)) + SumLen(f, S \ {x})
Fetched ==
    SumLen([c \in all_identifiers \X Directions |-> api_out[c[1]][c[2]]],
           all_identifiers \X Directions)

\* What the client does when asked for direction d of seed s: what it did the
\* last time it was asked, else any outcome within the bound (used: identifiers
\* already returned in the same loop turn).
ClientOutcomes(s, d, used) ==
    IF api_out[s][d] # None
      THEN {Val(api_out[s][d])}
      ELSE {o \in AdapterOutcomes :
               /\ Fetched + used + Len(o.value) <= MaxFetched
               /\ api_client = "CompositeAPI" => o \in CompositeOutcomes}

\* _fetch_data_for_identifier without its try/except
fetch_data_nocatch(ref_out, cit_out, fetch_references, fetch_citations, has_stats) ==
    LET ref_failed == fetch_references /\ ref_out.raises
        cit_tried == fetch_citations /\ ~ref_failed
        cit_failed == cit_tried /\ cit_out.raises
    IN  [references |-> IF fetch_references /\ ~ref_failed
                          THEN Some(ref_out.value) ELSE None,
         citations |-> IF cit_tried /\ ~cit_failed THEN Some(cit_out.value) ELSE None,
         api_contributions |-> None,
         tried |-> [references |-> fetch_references, citations |-> cit_tried],
         raised |-> ref_failed \/ cit_failed]

\* _fetch_data_for_identifier: references first, then citations, both inside one
\* try block, so that an exception of the references call skips the citations
\* call; what was assigned before the exception is returned.
fetch_data_for_identifier(ref_out, cit_out, fetch_references, fetch_citations, has_stats) ==
    LET ref_failed == fetch_references /\ ref_out.raises
        cit_tried == fetch_citations /\ ~ref_failed
        cit_failed == cit_tried /\ cit_out.raises
        ref_ok == fetch_references /\ ~ref_failed
        cit_ok == cit_tried /\ ~cit_failed
        keys == {d \in Directions :
                    has_stats /\ IF d = "references" THEN ref_ok ELSE cit_ok}
    IN  [references |-> IF ref_ok THEN Some(ref_out.value) ELSE None,
         citations |-> IF cit_ok THEN Some(cit_out.value) ELSE None,
         api_contributions |->
             IF keys = {} THEN None
             ELSE Some([d \in keys |-> client_stats(IF d = "references"
                                                      THEN ref_out.value
                                                      ELSE cit_out.value)]),
         tried |-> [references |-> fetch_references, citations |-> cit_tried],
         raised |-> FALSE]

\* len(x) if x is not None else 0
count_of(o) == IF o # None THEN Len(Val(o)) ELSE 0

\* the SummaryRecord of one seed ('api' and 'retrieval_timestamp' left out; the
\* twelve per-provider columns are kept as the stats dicts they are copied from)
summary_record(s, f) ==
    [doi |-> s,
     references_found |-> count_of(f.references),
     citations_found |-> count_of(f.citations),
     contributions |-> IF f.api_contributions # None
                         THEN Val(f.api_contributions) ELSE <<>>]

\* raw_data[initial_identifier] = {...}, as the dict's item
raw_record(s, f) == [key |-> s, references |-> f.references, citations |-> f.citations]

\* the test without the exclusion of seeds
is_novel_any(x) == TRUE

\* `ref_doi not in self.all_identifiers`
is_novel(x) == x \notin all_identifiers

\* d[k] = [v] in place of d[k].append(v)
dict_assign(d, k, v) ==
    IF \E i \in 1..Len(d) : d[i].key = k
      THEN [i \in 1..Len(d) |-> IF d[i].key = k THEN [key |-> k, val |-> <<v>>] ELSE d[i]]
      ELSE Append(d, [key |-> k, val |-> <<v>>])

\* d[k].insert(0, v) in place of d[k].append(v)
dict_prepend(d, k, v) ==
    IF \E i \in 1..Len(d) : d[i].key = k
      THEN [i \in 1..Len(d) |->
               IF d[i].key = k THEN [key |-> k, val |-> <<v>> \o d[i].val] ELSE d[i]]
      ELSE Append(d, [key |-> k, val |-> <<v>>])

\* d[k].append(v) on a defaultdict(list)
dict_append(d, k, v) ==
    IF \E i \in 1..Len(d) : d[i].key = k
      THEN [i \in 1..Len(d) |->
               IF d[i].key = k THEN [key |-> k, val |-> Append(d[i].val, v)] ELSE d[i]]
      ELSE Append(d, [key |-> k, val |-> <<v>>])

\* for doi in order: if doi not in self.all_identifiers: d[doi].append(seed)
RECURSIVE tally_loop(_, _, _, _)
tally_loop(d, order, i, seed) ==
    IF i > Len(order) THEN d
    ELSE tally_loop(IF is_novel(order[i]) THEN dict_append(d, order[i], seed) ELSE d,
                    order, i + 1, seed)

\* the loop going through the fetched list itself, duplicates included
tally_orders_of_list(fetched) == {Val(fetched)}

\* the orders in which `for doi in set(fetched)` can visit the identifiers
tally_orders(fetched) == ListsOf(Range(Val(fetched)))

\* one row per seed of one tally entry
rows_of(entry) ==
    [i \in 1..Len(entry.val) |-> [novel_doi |-> entry.key, initial_doi |-> entry.val[i]]]

\* the post-processing loop with the threshold test turned around
RECURSIVE threshold_rows_atmost(_, _, _)
threshold_rows_atmost(d, threshold, i) ==
    IF i > Len(d) THEN <<>>
    ELSE (IF Len(d[i].val) <= threshold THEN rows_of(d[i]) ELSE <<>>)
         \o threshold_rows_atmost(d, threshold, i + 1)

\* the post-processing loop with the threshold test left out
RECURSIVE threshold_rows_all(_, _, _)
threshold_rows_all(d, threshold, i) ==
    IF i > Len(d) THEN <<>>
    ELSE rows_of(d[i]) \o threshold_rows_all(d, threshold, i + 1)

\* for doi, seeds in d.items(): if len(seeds) >= threshold: one row per seed
\* (the row's second key is 'initial_citing_doi' backward, 'initial_cited_doi' forward)
RECURSIVE threshold_rows(_, _, _)
threshold_rows(d, threshold, i) ==
    IF i > Len(d) THEN <<>>
    ELSE (IF Len(d[i].val) >= threshold THEN rows_of(d[i]) ELSE <<>>)
         \o threshold_rows(d, threshold, i + 1)

\* backward analysis for every threshold from 0 on
do_backward_from_zero == min_references_n >= 0

do_backward == min_references_n > 0
do_forward == min_citations_m > 0

\* the state of a run before run_analysis / run_base_collection is called
RunIdle ==
    /\ a_pc = "idle"
    /\ a_mode = "analysis"
    /\ min_references_n = 0
    /\ min_citations_m = 0
    /\ pending = {}
    /\ fetch_calls = 0
    /\ summary_data = <<>>
    /\ all_references = <<>>
    /\ all_citations = <<>>
    /\ raw_data = <<>>
    /\ backward_results = <<>>
    /\ forward_results = <<>>

\* The seed sets an input can give: the first k identifiers of the universe,
\* digit strings as MAG IDs.
SeedSets == {{IdList[i] : i \in 1..k} : k \in 1..MaxSeeds}

\* CocitationAnalyzer(api_client, initial_dois, initial_mag_ids), used as a
\* library with any client.
AnalyzerInit ==
    /\ \E seeds \in SeedSets :
          /\ initial_dois = {s \in seeds : ~isdigit(s)}
          /\ initial_mag_ids = {s \in seeds : isdigit(s)}
          /\ all_identifiers = seeds
          /\ api_out = [s \in seeds |-> [d \in Directions |-> None]]
    /\ api_client = "other"
    /\ api_has_stats \in BOOLEAN
    /\ RunIdle

\* run_analysis(n, m) up to its for loop: both thresholds non-positive returns
\* [], [], [], {} at once.
run_analysis_begin(n, m) ==
    /\ a_pc = "idle"
    /\ a_mode' = "analysis"
    /\ min_references_n' = n
    /\ min_citations_m' = m
    /\ fetch_calls' = 0
    /\ summary_data' = <<>>
    /\ all_references' = <<>>
    /\ all_citations' = <<>>
    /\ raw_data' = <<>>
    /\ backward_results' = <<>>
    /\ forward_results' = <<>>
    /\ IF ~(n > 0) /\ ~(m > 0)
         THEN a_pc' = "done" /\ pending' = {}
         ELSE a_pc' = "loop" /\ pending' = all_identifiers
    /\ UNCHANGED <<seedVars, api_client, api_out>>

\* run_base_collection() up to its for loop
run_base_collection_begin ==
    /\ a_pc = "idle"
    /\ a_mode' = "base"
    /\ a_pc' = "loop"
    /\ pending' = all_identifiers
    /\ fetch_calls' = 0
    /\ summary_data' = <<>>
    /\ raw_data' = <<>>
    /\ UNCHANGED <<seedVars, api_client, api_out, min_references_n, min_citations_m,
                   all_references, all_citations, backward_results, forward_results>>

\* a library user calls run_analysis(n, m)
RunAnalysis(n, m) ==
    /\ cli_pc = "lib"
    /\ run_analysis_begin(n, m)
    /\ UNCHANGED <<cliVars, notAnalyzer>>

\* a library user calls run_base_collection()
RunBaseCollection ==
    /\ cli_pc = "lib"
    /\ run_base_collection_begin
    /\ UNCHANGED <<cliVars, notAnalyzer>>

\* the client calls one loop turn makes, with their outcomes noted
Asked(s, f, ref_out, cit_out) ==
    [api_out EXCEPT ![s] =
        [references |-> IF f.tried.references THEN Some(ref_out) ELSE @.references,
         citations |-> IF f.tried.citations THEN Some(cit_out) ELSE @.citations]]
calls_made(f) ==
    (IF f.tried.references THEN 1 ELSE 0) + (IF f.tried.citations THEN 1 ELSE 0)

\* One turn of the for loop of run_analysis, for seed s: fetch, raw_data,
\* summary record, backward and forward tally.
AnalysisIteration(s) ==
    /\ a_pc = "loop"
    /\ a_mode = "analysis"
    /\ s \in pending
    /\ \E ref_out \in IF do_backward THEN ClientOutcomes(s, "references", 0) ELSE {Raised} :
       \E cit_out \in IF do_forward
                        THEN ClientOutcomes(s, "citations", Len(ref_out.value))
                        ELSE {Raised} :
          LET f == fetch_data_for_identifier(ref_out, cit_out, do_backward, do_forward,
                                             api_has_stats)
          IN  /\ api_out' = Asked(s, f, ref_out, cit_out)
              /\ fetch_calls' = fetch_calls + calls_made(f)
              /\ IF f.raised
                   THEN /\ a_pc' = "aborted"
                        /\ UNCHANGED <<pending, summary_data, raw_data,
                                       all_references, all_citations>>
                   ELSE /\ a_pc' = "loop"
                        /\ pending' = pending \ {s}
                        /\ raw_data' = Append(raw_data, raw_record(s, f))
                        /\ summary_data' = Append(summary_data, summary_record(s, f))
                        /\ IF do_backward /\ f.references # None
                             THEN \E order \in tally_orders(f.references) :
                                     all_references' = tally_loop(all_references, order, 1, s)
                             ELSE UNCHANGED all_references
                        /\ IF do_forward /\ f.citations # None
                             THEN \E order \in tally_orders(f.citations) :
                                     all_citations' = tally_loop(all_citations, order, 1, s)
                             ELSE UNCHANGED all_citations
    /\ UNCHANGED <<seedVars, api_client, a_mode, min_references_n, min_citations_m,
                   backward_results, forward_results, cliVars, notAnalyzer>>

\* After the loop of run_analysis: the rows of every tally entry that meets its
\* threshold, and the return.
PostProcess ==
    /\ a_pc = "loop"
    /\ a_mode = "analysis"
    /\ pending = {}
    /\ backward_results' = IF do_backward
                             THEN threshold_rows(all_references, min_references_n, 1)
                             ELSE <<>>
    /\ forward_results' = IF do_forward
                            THEN threshold_rows(all_citations, min_citations_m, 1)
                            ELSE <<>>
    /\ a_pc' = "done"
    /\ UNCHANGED <<seedVars, api_client, api_out, a_mode, min_references_n, min_citations_m, pending,
                   fetch_calls, summary_data, all_references, all_citations, raw_data,
                   cliVars, notAnalyzer>>

\* One turn of the for loop of run_base_collection: both directions, no tally.
BaseIteration(s) ==
    /\ a_pc = "loop"
    /\ a_mode = "base"
    /\ s \in pending
    /\ \E ref_out \in ClientOutcomes(s, "references", 0) :
       \E cit_out \in ClientOutcomes(s, "citations", Len(ref_out.value)) :
          LET f == fetch_data_for_identifier(ref_out, cit_out, TRUE, TRUE, api_has_stats)
          IN  /\ api_out' = Asked(s, f, ref_out, cit_out)
              /\ fetch_calls' = fetch_calls + calls_made(f)
              /\ IF f.raised
                   THEN /\ a_pc' = "aborted"
                        /\ UNCHANGED <<pending, summary_data, raw_data>>
                   ELSE /\ a_pc' = "loop"
                        /\ pending' = pending \ {s}
                        /\ raw_data' = Append(raw_data, raw_record(s, f))
                        /\ summary_data' = Append(summary_data, summary_record(s, f))
    /\ UNCHANGED <<seedVars, api_client, a_mode, min_references_n, min_citations_m,
                   all_references, all_citations, backward_results, forward_results,
                   cliVars, notAnalyzer>>

\* the return of run_base_collection
BaseReturn ==
    /\ a_pc = "loop"
    /\ a_mode = "base"
    /\ pending = {}
    /\ a_pc' = "done"
    /\ UNCHANGED <<seedVars, api_client, api_out, a_mode, min_references_n, min_citations_m, pending,
                   fetch_calls, summary_data, all_references, all_citations, raw_data,
                   backward_results, forward_results, cliVars, notAnalyzer>>

Thresholds == 0..MaxThreshold

\* The caller receives the tuple run_analysis returns and keeps it (the lists
\* as sets, the order of the summary records aside); the locals of the call
\* are gone, the analyzer object and its client stay.
NoPrev ==
    [ran |-> FALSE, n |-> 0, m |-> 0, order |-> <<>>, summary |-> {},
     backward |-> {}, forward |-> {}, raw |-> {}]
KeepResults ==
    /\ cli_pc = "lib"
    /\ a_pc = "done"
    /\ a_mode = "analysis"
    /\ ~prev.ran
    /\ prev' = [ran |-> TRUE, n |-> min_references_n, m |-> min_citations_m,
                order |-> [i \in 1..Len(summary_data) |-> summary_data[i].doi],
                summary |-> Range(summary_data),
                backward |-> Range(backward_results),
                forward |-> Range(forward_results),
                raw |-> Range(raw_data)]
    /\ a_pc' = "idle"
    /\ min_references_n' = 0
    /\ min_citations_m' = 0
    /\ fetch_calls' = 0
    /\ summary_data' = <<>>
    /\ all_references' = <<>>
    /\ all_citations' = <<>>
    /\ raw_data' = <<>>
    /\ backward_results' = <<>>
    /\ forward_results' = <<>>
    /\ UNCHANGED <<seedVars, api_client, api_out, a_mode, pending, cliVars, mergeVars,
                   netVars, g_prev, oaVars, fetchVars>>

AnalyzerNext ==
    \/ \E n, m \in Thresholds : RunAnalysis(n, m)
    \/ RunBaseCollection
    \/ \E s \in all_identifiers : AnalysisIteration(s)
    \/ PostProcess
    \/ \E s \in all_identifiers : BaseIteration(s)
    \/ BaseReturn

(***************************************************************************)
(* cli.py: the `run` command                                               *)
(***************************************************************************)
CliArgs ==
    [ris_file : BOOLEAN, dois : BOOLEAN, n_threshold : Thresholds,
     m_threshold : Thresholds, base_only : BOOLEAN]

\* the command starts with its arguments; no analyzer exists yet
CliInit ==
    /\ cli_pc = "start"
    /\ cli_args \in CliArgs
    /\ exit_code = None
    /\ client_built = FALSE
    /\ initial_dois = {}
    /\ initial_mag_ids = {}
    /\ all_identifiers = {}
    /\ api_client = "other"
    /\ api_has_stats = FALSE
    /\ api_out = <<>>
    /\ RunIdle

\* raise typer.Exit(code=1)
cli_exit(code) ==
    /\ cli_pc' = "exit"
    /\ exit_code' = Some(code)

\* the argument check without the test of the two thresholds
args_rejected_nothreshold(a) ==
    \/ ~a.ris_file /\ ~a.dois
    \/ a.ris_file /\ a.dois

\* the three argument checks at the head of run(): no input, both inputs, or
\* both thresholds zero without --base-only
args_rejected(a) ==
    \/ ~a.ris_file /\ ~a.dois
    \/ a.ris_file /\ a.dois
    \/ ~a.base_only /\ a.n_threshold = 0 /\ a.m_threshold = 0

CliValidate ==
    /\ cli_pc = "start"
    /\ IF args_rejected(cli_args)
         THEN cli_exit(1)
         ELSE cli_pc' = "outdir" /\ UNCHANGED exit_code
    /\ UNCHANGED <<cli_args, client_built, anaVars, notCli>>

\* os.makedirs(output_dir) and setup_file_logging: an OSError exits with 1
CliOutputDir ==
    /\ cli_pc = "outdir"
    /\ \/ cli_exit(1)
       \/ cli_pc' = "input" /\ UNCHANGED exit_code
    /\ UNCHANGED <<cli_args, client_built, anaVars, notCli>>

\* The input is read: a RIS file gives DOIs and MAG IDs, --doi gives the valid
\* DOIs among those named. A parse error or an empty seed set exits with 1.
CliInput ==
    /\ cli_pc = "input"
    /\ \/ /\ cli_exit(1)
          /\ UNCHANGED <<initial_dois, initial_mag_ids>>
       \/ /\ \E seeds \in SeedSets :
                /\ initial_dois' = {s \in seeds : ~isdigit(s)}
                /\ initial_mag_ids' = IF cli_args.ris_file
                                        THEN {s \in seeds : isdigit(s)} ELSE {}
          /\ cli_pc' = "init"
          /\ UNCHANGED exit_code
    /\ UNCHANGED <<cli_args, client_built, all_identifiers, api_client, api_has_stats,
                   api_out, runVars, notCli>>

\* api_client = CompositeAPI(); analyzer = CocitationAnalyzer(...): an exception
\* of either constructor exits with 1
CliInitClient ==
    /\ cli_pc = "init"
    /\ \/ /\ cli_exit(1)
          /\ UNCHANGED <<client_built, all_identifiers, api_client, api_has_stats, api_out>>
       \/ /\ client_built' = TRUE
          /\ api_client' = "CompositeAPI"
          /\ api_has_stats' = TRUE
          /\ all_identifiers' = initial_dois \cup initial_mag_ids
          /\ api_out' = [s \in initial_dois \cup initial_mag_ids |->
                            [d \in Directions |-> None]]
          /\ cli_pc' = "run"
          /\ UNCHANGED exit_code
    /\ UNCHANGED <<cli_args, initial_dois, initial_mag_ids, runVars, notCli>>

\* analyzer.run_base_collection() with --base-only, else
\* analyzer.run_analysis(n_threshold, m_threshold)
CliRun ==
    /\ cli_pc = "run"
    /\ IF cli_args.base_only
         THEN run_base_collection_begin
         ELSE run_analysis_begin(cli_args.n_threshold, cli_args.m_threshold)
    /\ cli_pc' = "running"
    /\ UNCHANGED <<cli_args, exit_code, client_built, notCli>>

\* the analyzer call returns, or its exception exits with 1
CliReturned ==
    /\ cli_pc = "running"
    /\ a_pc \in {"done", "aborted"}
    /\ IF a_pc = "aborted"
         THEN cli_exit(1)
         ELSE cli_pc' = "write" /\ UNCHANGED exit_code
    /\ UNCHANGED <<cli_args, client_built, anaVars, notCli>>

\* the CSV and JSON files are written and the command ends
CliWrite ==
    /\ cli_pc = "write"
    /\ cli_exit(0)
    /\ UNCHANGED <<cli_args, client_built, anaVars, notCli>>

CliNext ==
    \/ CliValidate
    \/ CliOutputDir
    \/ CliInput
    \/ CliInitClient
    \/ CliRun
    \/ CliReturned
    \/ CliWrite

(***************************************************************************)
(* network_generator.py                                                    *)
(***************************************************************************)
Modes == {"bibliographic_coupling", "co_citation", "amsler"}

\* The value of 'references' or 'citations' in an item of the raw-data map: the
\* key is absent, its value is null, or it is a list.  Every use the generator
\* makes of such a list is set(list) or set.update(list), so the list is kept
\* as the set of its elements.
Absent == [kind |-> "absent", value |-> {}]
Null == [kind |-> "null", value |-> {}]
List(S) == [kind |-> "list", value |-> S]
FieldValues ==
    {Absent, Null} \cup {List(S) : S \in {T \in SUBSET Ids : Cardinality(T) <= MaxListLen}}
field_size(f) == IF f.kind = "list" THEN Cardinality(f.value) ELSE 1
RECURSIVE data_size(_, _)
data_size(data, i) ==
    IF i > Len(data) THEN 0
    ELSE field_size(data[i].references) + field_size(data[i].citations)
         + data_size(data, i + 1)

\* The fields of a map with the given keys: any field value for a map of
\* at most MaxRichKeys keys; for a larger map the key is absent or its list
\* holds identifiers that are no keys.
FieldValuesFor(keys) ==
    IF Len(keys) <= MaxRichKeys
      THEN FieldValues
      ELSE {Absent} \cup {List(S) : S \in {T \in SUBSET (Ids \ Range(keys)) :
                                              Cardinality(T) <= MaxListLen}}

\* the key orders of a raw-data map: every order of the first k identifiers
KeyLists == UNION {ListsOf({IdList[i] : i \in 1..k}) : k \in 1..MaxKeys}

\* The arguments of generate_network.  max_nodes 0 stands for None (the code
\* tests `if max_nodes`); amsler_lambda is given in halves: 0, 1 and 2 stand
\* for 0.0, 0.5 (the default) and 1.0, and every strength is kept in halves too.
NetArgs ==
    {a \in [mode : Modes, min_strength : 1..MaxStrength, max_nodes : 0..MaxNodes,
            include_cociting_nodes : BOOLEAN, amsler_lambda : 0..2] :
        a.mode # "amsler" => a.amsler_lambda = 1}

keys_of(data) == {data[i].key : i \in 1..Len(data)}

\* set.update(None) in _extract_all_identifiers raises TypeError
extract_raises(data, include_cociting_nodes) ==
    \E i \in 1..Len(data) :
        \/ data[i].references.kind = "null"
        \/ include_cociting_nodes /\ data[i].citations.kind = "null"

\* _extract_all_identifiers: the keys, every reference, and the citations
\* when include_cociting_nodes is set
extract_all_identifiers(data, include_cociting_nodes) ==
    keys_of(data)
    \cup UNION {data[i].references.value : i \in 1..Len(data)}
    \cup (IF include_cociting_nodes
            THEN UNION {data[i].citations.value : i \in 1..Len(data)}
            ELSE {})

Min(a, b) == IF a < b THEN a ELSE b

\* a node limit that takes any max_nodes identifiers, seeds or not
limit_nodes_any(all, initial, max_nodes) ==
    IF max_nodes # 0 /\ Cardinality(all) > max_nodes
      THEN {T \in SUBSET all : Cardinality(T) = max_nodes}
      ELSE {all}

\* a node limit that never drops a seed
limit_nodes_keep_seeds(all, initial, max_nodes) ==
    IF max_nodes # 0 /\ Cardinality(all) > max_nodes
      THEN LET other_identifiers == all \ initial
               remaining_slots == max_nodes - Cardinality(initial)
           IN  IF remaining_slots > 0
                 THEN {initial \cup T :
                          T \in {U \in SUBSET other_identifiers :
                                    Cardinality(U) = Min(remaining_slots,
                                                         Cardinality(other_identifiers))}}
                 ELSE {initial}
      ELSE {all}

\* The node limit of generate_network: the sets all_identifiers can become.
\* list(a_set)[:k] is any k elements of the set.
limit_nodes(all, initial, max_nodes) ==
    IF max_nodes # 0 /\ Cardinality(all) > max_nodes
      THEN LET other_identifiers == all \ initial
               remaining_slots == max_nodes - Cardinality(initial)
           IN  IF remaining_slots > 0
                 THEN {initial \cup T :
                          T \in {U \in SUBSET other_identifiers :
                                    Cardinality(U) = Min(remaining_slots,
                                                         Cardinality(other_identifiers))}}
                 ELSE {T \in SUBSET initial : Cardinality(T) = max_nodes}
      ELSE {all}

\* a < b for Python strings: the first differing character decides, and a
\* proper prefix is smaller
RECURSIVE StrLessFrom(_, _, _)
StrLessFrom(a, b, i) ==
    IF i > Len(a) THEN i <= Len(b)
    ELSE IF i > Len(b) THEN FALSE
    ELSE IF a[i] # b[i] THEN a[i] < b[i]
    ELSE StrLessFrom(a, b, i + 1)
StrLess(a, b) == StrLessFrom(a, b, 1)

\* sorted(identifiers, reverse=True)
RECURSIVE sorted_reverse(_)
sorted_reverse(S) ==
    IF S = {} THEN <<>>
    ELSE LET m == CHOOSE x \in S : \A y \in S \ {x} : StrLess(y, x)
         IN  <<m>> \o sorted_reverse(S \ {m})

\* sorted(identifiers)
RECURSIVE sorted(_)
sorted(S) ==
    IF S = {} THEN <<>>
    ELSE LET m == CHOOSE x \in S : \A y \in S \ {x} : StrLess(x, y)
         IN  <<m>> \o sorted(S \ {m})

\* _create_node_mappings: the identifiers numbered from 0 in sorted order
create_node_mappings(identifiers) ==
    LET order == sorted(identifiers)
    IN  [x \in identifiers |-> (CHOOSE i \in 1..Len(order) : order[i] = x) - 1]

\* for i in range(n): for j in range(n): every pair (i, j), counted from 1
index_pairs_square(n, i, j) ==
    [k \in 1..(n * n) |-> <<((k - 1) \div n) + 1, ((k - 1) % n) + 1>>]

\* for i in range(n): for j in range(i + 1, n): the pairs (i, j), counted from 1
RECURSIVE index_pairs(_, _, _)
index_pairs(n, i, j) ==
    IF i > n THEN <<>>
    ELSE IF j > n THEN index_pairs(n, i + 1, i + 2)
    ELSE << <<i, j>> >> \o index_pairs(n, i, j + 1)

\* NetworkLink with the two papers the other way round
network_link_swapped(map, paper1, paper2, strength) ==
    [source_id |-> map[paper2], target_id |-> map[paper1], strength |-> strength]

\* NetworkLink(source_id=node1_id, target_id=node2_id, strength=...)
network_link(map, paper1, paper2, strength) ==
    [source_id |-> map[paper1], target_id |-> map[paper2], strength |-> strength]

\* The pair loop the three link generators share: a pair is skipped unless both
\* papers have a node id; a link is appended when the strength reaches
\* min_strength.  strength[<<paper1, paper2>>] is in halves.
RECURSIVE pair_loop(_, _, _, _, _, _)
pair_loop(paper_ids, pairs, k, strength, map, min_strength) ==
    IF k > Len(pairs) THEN <<>>
    ELSE LET paper1 == paper_ids[pairs[k][1]]
             paper2 == paper_ids[pairs[k][2]]
             rest == pair_loop(paper_ids, pairs, k + 1, strength, map, min_strength)
         IN  IF paper1 \notin DOMAIN map \/ paper2 \notin DOMAIN map THEN rest
             ELSE IF strength[<<paper1, paper2>>] >= 2 * min_strength
               THEN <<network_link(map, paper1, paper2, strength[<<paper1, paper2>>])>>
                    \o rest
               ELSE rest

\* the items of the map that have the key 'references' / 'citations'
with_references(data) == SelectSeq(data, LAMBDA e : e.references.kind # "absent")
with_citations(data) == SelectSeq(data, LAMBDA e : e.citations.kind # "absent")
paper_keys(items) == [i \in 1..Len(items) |-> items[i].key]

\* paper_references.get(paper, set()) and paper_citations.get(paper, set())
references_get(data, paper) ==
    UNION {data[i].references.value : i \in {j \in 1..Len(data) : data[j].key = paper}}
citations_get(data, paper) ==
    UNION {data[i].citations.value : i \in {j \in 1..Len(data) : data[j].key = paper}}

\* set(None) raises TypeError
references_raise(data) == \E i \in 1..Len(data) : data[i].references.kind = "null"
citations_raise(data) == \E i \in 1..Len(data) : data[i].citations.kind = "null"

\* bibliographic coupling counting only the shared references that have a node id
bibliographic_coupling_links_in_nodes(data, map, min_strength) ==
    LET paper_ids == paper_keys(with_references(data))
        overlap == [p \in Range(paper_ids) \X Range(paper_ids) |->
                       2 * Cardinality(references_get(data, p[1])
                                       \cap references_get(data, p[2])
                                       \cap DOMAIN map)]
    IN  pair_loop(paper_ids, index_pairs(Len(paper_ids), 1, 2), 1, overlap, map,
                  min_strength)

\* _generate_bibliographic_coupling_links
bibliographic_coupling_links(data, map, min_strength) ==
    LET paper_ids == paper_keys(with_references(data))
        overlap == [p \in Range(paper_ids) \X Range(paper_ids) |->
                       2 * Cardinality(references_get(data, p[1])
                                       \cap references_get(data, p[2]))]
    IN  pair_loop(paper_ids, index_pairs(Len(paper_ids), 1, 2), 1, overlap, map,
                  min_strength)

\* co-citation over the full citation lists whatever include_cociting_nodes is
co_citation_links_full(data, map, min_strength, include_cociting_nodes) ==
    LET paper_ids == paper_keys(with_citations(data))
        overlap == [p \in Range(paper_ids) \X Range(paper_ids) |->
                       2 * Cardinality(citations_get(data, p[1])
                                       \cap citations_get(data, p[2]))]
    IN  pair_loop(paper_ids, index_pairs(Len(paper_ids), 1, 2), 1, overlap, map,
                  min_strength)

\* _generate_co_citation_links
co_citation_links(data, map, min_strength, include_cociting_nodes) ==
    LET paper_ids == paper_keys(with_citations(data))
        citations(paper) == IF include_cociting_nodes
                              THEN citations_get(data, paper)
                              ELSE citations_get(data, paper) \cap DOMAIN map
        overlap == [p \in Range(paper_ids) \X Range(paper_ids) |->
                       2 * Cardinality(citations(p[1]) \cap citations(p[2]))]
    IN  pair_loop(paper_ids, index_pairs(Len(paper_ids), 1, 2), 1, overlap, map,
                  min_strength)

\* Amsler similarity counting only the shared citations that have a node id
amsler_links_in_nodes(data, map, min_strength, amsler_lambda, paper_ids) ==
    LET amsler_strength ==
            [p \in Range(paper_ids) \X Range(paper_ids) |->
                amsler_lambda * Cardinality(references_get(data, p[1])
                                            \cap references_get(data, p[2]))
                + (2 - amsler_lambda) * Cardinality(citations_get(data, p[1])
                                                    \cap citations_get(data, p[2])
                                                    \cap DOMAIN map)]
    IN  pair_loop(paper_ids, index_pairs(Len(paper_ids), 1, 2), 1, amsler_strength, map,
                  min_strength)

\* _generate_amsler_links, for one order paper_ids of
\* list(set(paper_references.keys()) | set(paper_citations.keys()))
amsler_paper_ids(data) ==
    ListsOf(Range(paper_keys(with_references(data)))
            \cup Range(paper_keys(with_citations(data))))
amsler_links(data, map, min_strength, amsler_lambda, paper_ids) ==
    LET amsler_strength ==
            [p \in Range(paper_ids) \X Range(paper_ids) |->
                amsler_lambda * Cardinality(references_get(data, p[1])
                                            \cap references_get(data, p[2]))
                + (2 - amsler_lambda) * Cardinality(citations_get(data, p[1])
                                                    \cap citations_get(data, p[2]))]
    IN  pair_loop(paper_ids, index_pairs(Len(paper_ids), 1, 2), 1, amsler_strength, map,
                  min_strength)

\* identifier.startswith('10.') and '/' in identifier
is_doi(id) ==
    /\ Len(id) >= 3 /\ id[1] = 49 /\ id[2] = 48 /\ id[3] = 46
    /\ \E i \in 1..Len(id) : id[i] = 47
\* a MAG id test that looks at the length only
is_mag_id_by_length(id) == Len(id) > 5
\* identifier.isdigit() and len(identifier) > 5
is_mag_id(id) == isdigit(id) /\ Len(id) > 5

\* the ends of the links and, when there is a link, node 0 as well
linked_node_ids_and_first(ls) ==
    IF Len(ls) = 0 THEN {}
    ELSE {0} \cup {ls[i].source_id : i \in 1..Len(ls)}
             \cup {ls[i].target_id : i \in 1..Len(ls)}

\* the node ids that are an end of a link
linked_node_ids(ls) ==
    {ls[i].source_id : i \in 1..Len(ls)} \cup {ls[i].target_id : i \in 1..Len(ls)}

\* the sorted node ids without the largest
sorted_ints_but_last(S) ==
    LET T == {x \in S : \E y \in S : x < y}
        Below(x) == Cardinality({y \in T : y < x})
    IN  [i \in 1..Cardinality(T) |-> CHOOSE x \in T : Below(x) = i - 1]

RECURSIVE sorted_ints(_)
sorted_ints(S) ==
    IF S = {} THEN <<>>
    ELSE LET m == CHOOSE x \in S : \A y \in S : x <= y
         IN  <<m>> \o sorted_ints(S \ {m})

\* the number of links in place of the sum of their strengths
total_strength_as_count(ls, i) == Len(ls) - i + 1

RECURSIVE total_strength(_, _)
total_strength(ls, i) ==
    IF i > Len(ls) THEN 0 ELSE ls[i].strength + total_strength(ls, i + 1)

\* one item of _build_network_structure: the node's id and its link weights
network_item(node_id, ls) ==
    LET node_links == SelectSeq(ls, LAMBDA l : l.source_id = node_id \/ l.target_id = node_id)
    IN  [id |-> node_metadata[node_id].id,
         Links |-> Len(node_links),
         total_link_strength |-> total_strength(node_links, 1)]

NoNetwork == [items |-> <<>>, links |-> <<>>]

\* the generator before generate_network is called
NetIdle ==
    /\ g_pc = "idle"
    /\ citations_data = <<>>
    /\ g_args = [mode |-> "amsler", min_strength |-> 1, max_nodes |-> 0,
                 include_cociting_nodes |-> FALSE, amsler_lambda |-> 1]
    /\ g_all_identifiers = {}
    /\ identifier_to_node_id = <<>>
    /\ node_counter = 0
    /\ links = <<>>
    /\ metadata_queries = <<>>
    /\ node_metadata = <<>>
    /\ network_data = NoNetwork

\* NetworkGenerator() and the call generate_network(citations_data, mode, ...)
NetInit ==
    /\ g_pc = "call"
    /\ \E keys \in KeyLists :
       \E refs, cits \in [1..Len(keys) -> FieldValuesFor(keys)] :
          LET data == [i \in 1..Len(keys) |->
                          [key |-> keys[i], references |-> refs[i], citations |-> cits[i]]]
          IN  /\ data_size(data, 1) <= MaxDataSize
              /\ citations_data = data
    /\ g_args \in NetArgs
    /\ g_all_identifiers = {}
    /\ identifier_to_node_id = <<>>
    /\ node_counter = 0
    /\ links = <<>>
    /\ metadata_queries = <<>>
    /\ node_metadata = <<>>
    /\ network_data = NoNetwork

\* generate_network up to the node mappings: _extract_all_identifiers, the
\* node limit, _create_node_mappings
ExtractAndMap ==
    /\ g_pc = "call"
    /\ IF extract_raises(citations_data, g_args.include_cociting_nodes)
         THEN /\ g_pc' = "raised"
              /\ UNCHANGED <<g_all_identifiers, identifier_to_node_id, node_counter>>
         ELSE \E nodes \in limit_nodes(extract_all_identifiers(citations_data,
                                                              g_args.include_cociting_nodes),
                                      keys_of(citations_data), g_args.max_nodes) :
                 /\ g_all_identifiers' = nodes
                 /\ identifier_to_node_id' = create_node_mappings(nodes)
                 /\ node_counter' = Cardinality(nodes)
                 /\ g_pc' = "mapped"
    /\ UNCHANGED <<citations_data, g_args, links, metadata_queries, node_metadata,
                   network_data, notNet>>

\* generate_network: the links of the chosen mode
GenerateLinks ==
    /\ g_pc = "mapped"
    /\ \/ /\ g_args.mode = "bibliographic_coupling"
          /\ IF references_raise(citations_data)
               THEN g_pc' = "raised" /\ UNCHANGED links
               ELSE /\ links' = bibliographic_coupling_links(citations_data,
                                    identifier_to_node_id, g_args.min_strength)
                    /\ g_pc' = "linked"
       \/ /\ g_args.mode = "co_citation"
          /\ IF citations_raise(citations_data)
               THEN g_pc' = "raised" /\ UNCHANGED links
               ELSE /\ links' = co_citation_links(citations_data, identifier_to_node_id,
                                    g_args.min_strength, g_args.include_cociting_nodes)
                    /\ g_pc' = "linked"
       \/ /\ g_args.mode = "amsler"
          /\ IF references_raise(citations_data) \/ citations_raise(citations_data)
               THEN g_pc' = "raised" /\ UNCHANGED links
               ELSE \E paper_ids \in amsler_paper_ids(citations_data) :
                       /\ links' = amsler_links(citations_data, identifier_to_node_id,
                                       g_args.min_strength, g_args.amsler_lambda, paper_ids)
                       /\ g_pc' = "linked"
    /\ UNCHANGED <<citations_data, g_args, g_all_identifiers, identifier_to_node_id,
                   node_counter, metadata_queries, node_metadata, network_data, notNet>>

\* generate_network: _fetch_node_metadata for the identifiers that are an end
\* of a link.  DOIs are asked for first, then MAG IDs, each once; a query
\* returns a work, returns nothing, or raises (and is caught); every linked
\* identifier then gets its NodeMetadata.
MetadataOutcomes == {"work", "nothing", "raised"}
FetchNodeMetadata ==
    /\ g_pc = "linked"
    /\ LET linked_identifiers ==
               {x \in DOMAIN identifier_to_node_id :
                   identifier_to_node_id[x] \in linked_node_ids(links)}
       IN  \E dois \in ListsOf({x \in linked_identifiers : is_doi(x)}) :
           \E mag_ids \in ListsOf({x \in linked_identifiers : is_mag_id(x)}) :
           \E outcome \in [Range(dois) \cup Range(mag_ids) -> MetadataOutcomes] :
              /\ metadata_queries' = metadata_queries \o dois \o mag_ids
              /\ node_metadata' =
                    [n \in DOMAIN node_metadata
                           \cup {identifier_to_node_id[x] : x \in linked_identifiers} |->
                        IF \E x \in linked_identifiers : identifier_to_node_id[x] = n
                          THEN LET x == CHOOSE y \in linked_identifiers :
                                            identifier_to_node_id[y] = n
                               IN  [id |-> n, identifier |-> x,
                                    from_work |-> /\ x \in DOMAIN outcome
                                                  /\ outcome[x] = "work"]
                          ELSE node_metadata[n]]
    /\ g_pc' = "fetched"
    /\ UNCHANGED <<citations_data, g_args, g_all_identifiers, identifier_to_node_id,
                   node_counter, links, network_data, notNet>>

\* generate_network: _build_network_structure and the return
BuildNetwork ==
    /\ g_pc = "fetched"
    /\ LET order == SelectSeq(sorted_ints(linked_node_ids(links)),
                              LAMBDA n : n \in DOMAIN node_metadata)
       IN  network_data' = [items |-> [i \in 1..Len(order) |-> network_item(order[i], links)],
                            links |-> links]
    /\ g_pc' = "done"
    /\ UNCHANGED <<citations_data, g_args, g_all_identifiers, identifier_to_node_id,
                   node_counter, links, metadata_queries, node_metadata, notNet>>

\* The caller keeps the network generate_network returned and calls it again
\* on the same NetworkGenerator with the same raw data and arguments; the
\* locals of the first call are gone, the generator's fields stay.
NoNetPrev == [ran |-> FALSE, items |-> <<>>, links |-> <<>>]
CallAgain ==
    /\ g_pc = "done"
    /\ ~g_prev.ran
    /\ g_prev' = [ran |-> TRUE, items |-> network_data.items, links |-> network_data.links]
    /\ g_pc' = "call"
    /\ g_all_identifiers' = {}
    /\ links' = <<>>
    /\ network_data' = NoNetwork
    /\ UNCHANGED <<citations_data, g_args, identifier_to_node_id, node_counter,
                   metadata_queries, node_metadata, mergeVars, anaVars, cliVars, prev,
                   oaVars, fetchVars>>

NetNext ==
    \/ ExtractAndMap
    \/ GenerateLinks
    \/ FetchNodeMetadata
    \/ BuildNetwork

(***************************************************************************)
(* analyzer.py: _fetch_data_for_identifier, one statement group at a time  *)
(***************************************************************************)
FetchArgs == [fetch_references : BOOLEAN, fetch_citations : BOOLEAN, has_stats : BOOLEAN]
NoLocals == [references |-> None, citations |-> None, api_contributions |-> None]
ClientCall(d, out) == [ev |-> d, ok |-> ~out.raises]
Sleep == [ev |-> "sleep", ok |-> TRUE]

\* no pacing at all
pace_never(log, fetched) == log

\* if references is not None: time.sleep(0.1)   (likewise for citations)
pace(log, fetched) == IF fetched # None THEN Append(log, Sleep) ELSE log

\* an except clause that clears what was fetched
on_exception_clear(locals) == NoLocals

\* except Exception: the error is logged; the locals are returned as they are
on_exception(locals) == locals

\* api_contributions = {'references': ref_stats}
first_contribution(stats) == Some([d \in {"references"} |-> stats])

\* if api_contributions is None: api_contributions = {}
\* api_contributions['citations'] = cite_stats
add_contribution(c, stats) ==
    LET old == IF c = None THEN <<>> ELSE Val(c)
    IN  Some([d \in DOMAIN old \cup {"citations"} |->
                 IF d = "citations" THEN stats ELSE old[d]])

FetchIdle ==
    /\ f_pc = "idle"
    /\ f_args = [fetch_references |-> FALSE, fetch_citations |-> FALSE, has_stats |-> FALSE]
    /\ f_client = [d \in Directions |-> None]
    /\ f_locals = NoLocals
    /\ f_log = <<>>

\* the call _fetch_data_for_identifier(identifier, fetch_references, fetch_citations)
FetchInit ==
    /\ f_pc = "references"
    /\ f_args \in FetchArgs
    /\ f_client = [d \in Directions |-> None]
    /\ f_locals = NoLocals
    /\ f_log = <<>>

\* if fetch_references: the client call, with or without stats; an exception
\* leaves the try block
FetchReferences ==
    /\ f_pc = "references"
    /\ IF ~f_args.fetch_references
         THEN f_pc' = "citations" /\ UNCHANGED <<f_client, f_locals, f_log>>
         ELSE \E out \in AdapterOutcomes :
                 /\ f_client' = [f_client EXCEPT !["references"] = Some(out)]
                 /\ f_log' = Append(f_log, ClientCall("references", out))
                 /\ IF out.raises
                      THEN /\ f_locals' = on_exception(f_locals)
                           /\ f_pc' = "done"
                      ELSE /\ f_locals' =
                                [f_locals EXCEPT
                                    !.references = Some(out.value),
                                    !.api_contributions =
                                        IF f_args.has_stats
                                          THEN first_contribution(client_stats(out.value))
                                          ELSE @]
                           /\ f_pc' = "after_references"
    /\ UNCHANGED <<f_args, notFetch>>

\* the delay after the references call
PaceAfterReferences ==
    /\ f_pc = "after_references"
    /\ f_log' = pace(f_log, f_locals.references)
    /\ f_pc' = "citations"
    /\ UNCHANGED <<f_args, f_client, f_locals, notFetch>>

\* if fetch_citations: the client call, with or without stats
FetchCitations ==
    /\ f_pc = "citations"
    /\ IF ~f_args.fetch_citations
         THEN f_pc' = "done" /\ UNCHANGED <<f_client, f_locals, f_log>>
         ELSE \E out \in AdapterOutcomes :
                 /\ f_client' = [f_client EXCEPT !["citations"] = Some(out)]
                 /\ f_log' = Append(f_log, ClientCall("citations", out))
                 /\ IF out.raises
                      THEN /\ f_locals' = on_exception(f_locals)
                           /\ f_pc' = "done"
                      ELSE /\ f_locals' =
                                [f_locals EXCEPT
                                    !.citations = Some(out.value),
                                    !.api_contributions =
                                        IF f_args.has_stats
                                          THEN add_contribution(@, client_stats(out.value))
                                          ELSE @]
                           /\ f_pc' = "after_citations"
    /\ UNCHANGED <<f_args, notFetch>>

\* the delay after the citations call, and the return
PaceAfterCitations ==
    /\ f_pc = "after_citations"
    /\ f_log' = pace(f_log, f_locals.citations)
    /\ f_pc' = "done"
    /\ UNCHANGED <<f_args, f_client, f_locals, notFetch>>

FetchNext ==
    \/ FetchReferences
    \/ PaceAfterReferences
    \/ FetchCitations
    \/ PaceAfterCitations

(***************************************************************************)
(* apis/openalex.py                                                        *)
(***************************************************************************)
RetryCount == 3      \* range(3) of the retry loop

\* doi.startswith('10.'): the only DOIs the adapter hands on
starts_with_10(id) == Len(id) >= 3 /\ id[1] = 49 /\ id[2] = 48 /\ id[3] = 46

\* What one pass through the fetching code does: it runs through and yields a
\* list of DOIs, it finds no work (or no id) for the identifier, or a request
\* raises, with a rate-limit message ("429", "too many") or another one.
FetchedList(l) == [kind |-> "list", value |-> l]
NotFound == [kind |-> "not_found", value |-> <<>>]
RateLimited == [kind |-> "rate_limited", value |-> <<>>]
OtherError == [kind |-> "error", value |-> <<>>]
RequestOutcomes ==
    {FetchedList(l) : l \in SeqsUpTo({x \in Ids : starts_with_10(x)}, MaxListLen)}
    \cup {NotFound, RateLimited, OtherError}

Pow2(n) == IF n = 0 THEN 1 ELSE IF n = 1 THEN 2 ELSE 4
\* (2 ** attempt) + random.uniform(0, 1) in half seconds; the random part is
\* 0.0 or 0.5 here
BackoffDelays(attempt) == {2 * Pow2(attempt) + jitter : jitter \in 0..1}

OpenAlexIdle ==
    /\ oa_pc = "idle"
    /\ oa_method = "references"
    /\ oa_attempt = 0
    /\ oa_requests = <<>>
    /\ oa_sleeps = <<>>
    /\ oa_ret = None

\* OpenAlexAPI() and a call of get_references or get_citations
OpenAlexInit ==
    /\ oa_pc = "call"
    /\ oa_method \in Methods
    /\ oa_attempt = 0
    /\ oa_requests = <<>>
    /\ oa_sleeps = <<>>
    /\ oa_ret = None

\* get_references: one try block around the whole fetch; every exception is
\* logged and [] returned
GetReferences ==
    /\ oa_pc = "call"
    /\ oa_method = "references"
    /\ \E out \in RequestOutcomes :
          /\ oa_requests' = Append(oa_requests, out)
          /\ oa_ret' = Some(Returned(out.value))
    /\ oa_pc' = "done"
    /\ UNCHANGED <<oa_method, oa_attempt, oa_sleeps, notOpenAlex>>

\* get_citations up to the retry loop: the first fetch; an exception with a
\* rate-limit message enters the loop, any other ends the call with []
GetCitations ==
    /\ oa_pc = "call"
    /\ oa_method = "citations"
    /\ \E out \in RequestOutcomes :
          /\ oa_requests' = Append(oa_requests, out)
          /\ IF out = RateLimited
               THEN oa_pc' = "retry" /\ UNCHANGED oa_ret
               ELSE oa_pc' = "done" /\ oa_ret' = Some(Returned(out.value))
    /\ UNCHANGED <<oa_method, oa_attempt, oa_sleeps, notOpenAlex>>

\* one turn of `for attempt in range(3)`: sleep, fetch again; a list is
\* returned, a missing work and every exception go on to the next turn, and
\* after the last turn [] is returned
RetryCitations ==
    /\ oa_pc = "retry"
    /\ \E delay \in BackoffDelays(oa_attempt) : oa_sleeps' = Append(oa_sleeps, delay)
    /\ \E out \in RequestOutcomes :
          /\ oa_requests' = Append(oa_requests, out)
          /\ IF out.kind = "list"
               THEN /\ oa_pc' = "done"
                    /\ oa_ret' = Some(Returned(out.value))
                    /\ UNCHANGED oa_attempt
               ELSE IF oa_attempt + 1 < RetryCount
                      THEN /\ oa_attempt' = oa_attempt + 1
                           /\ UNCHANGED <<oa_pc, oa_ret>>
                      ELSE /\ oa_pc' = "done"
                           /\ oa_ret' = Some(Returned(<<>>))
                           /\ UNCHANGED oa_attempt
    /\ UNCHANGED <<oa_method, notOpenAlex>>

OpenAlexNext ==
    \/ GetReferences
    \/ GetCitations
    \/ RetryCitations

(***************************************************************************)
(* Specifications.  Each component runs on its own; the others stay in     *)
(* their initial state.                                                    *)
(***************************************************************************)
MergeIdle ==
    /\ m_call = [method |-> "references", with_stats |-> FALSE]
    /\ adapter_out = [p \in Providers |-> None]
    /\ future = [p \in Providers |-> None]
    /\ results = [p \in Providers |-> None]
    /\ m_ret = None

AnalyzerIdle ==
    /\ initial_dois = {}
    /\ initial_mag_ids = {}
    /\ all_identifiers = {}
    /\ api_client = "other"
    /\ api_has_stats = FALSE
    /\ api_out = <<>>
    /\ RunIdle

CliIdle ==
    /\ cli_pc = "lib"
    /\ cli_args = [ris_file |-> FALSE, dois |-> FALSE, n_threshold |-> 0,
                   m_threshold |-> 0, base_only |-> FALSE]
    /\ exit_code = None
    /\ client_built = FALSE

CallerIdle == prev = NoPrev /\ g_prev = NoNetPrev

\* the caller's second call repeats the first or raises one of its thresholds
Call(n, m) ==
    /\ prev.ran => \/ n >= prev.n /\ m = prev.m
                   \/ n = prev.n /\ m >= prev.m
    /\ RunAnalysis(n, m)

\* one call of a CompositeAPI method
InitMerge == MergeInit /\ AnalyzerIdle /\ CliIdle /\ CallerIdle /\ NetIdle /\ OpenAlexIdle /\ FetchIdle
SpecMerge == InitMerge /\ [][MergeNext]_vars

\* one run of run_analysis or run_base_collection, called as a library
\* or from the command line
Init ==
    /\ MergeIdle
    /\ CallerIdle
    /\ NetIdle
    /\ OpenAlexIdle /\ FetchIdle
    /\ \/ AnalyzerInit /\ CliIdle
       \/ CliInit
Next == AnalyzerNext \/ CliNext
Spec == Init /\ [][Next]_vars

\* two calls of run_analysis on one analyzer, whose client answers a repeated
\* question as it did before
InitRerun ==
    /\ MergeIdle /\ CallerIdle /\ NetIdle /\ OpenAlexIdle /\ FetchIdle
    /\ AnalyzerInit /\ ~api_has_stats /\ CliIdle
NextRerun ==
    \/ \E n, m \in Thresholds : Call(n, m)
    \/ \E s \in all_identifiers : AnalysisIteration(s)
    \/ PostProcess
    \/ KeepResults
SpecRerun == InitRerun /\ [][NextRerun]_vars

\* one call of generate_network on a new NetworkGenerator
InitNet == MergeIdle /\ AnalyzerIdle /\ CliIdle /\ CallerIdle /\ OpenAlexIdle /\ FetchIdle /\ NetInit
SpecNet == InitNet /\ [][NetNext]_vars

\* one call of _fetch_data_for_identifier
InitFetch ==
    MergeIdle /\ AnalyzerIdle /\ CliIdle /\ CallerIdle /\ NetIdle /\ OpenAlexIdle /\ FetchInit
SpecFetch == InitFetch /\ [][FetchNext]_vars

\* one call of an OpenAlexAPI method
InitOpenAlex ==
    MergeIdle /\ AnalyzerIdle /\ CliIdle /\ CallerIdle /\ NetIdle /\ FetchIdle /\ OpenAlexInit
SpecOpenAlex == InitOpenAlex /\ [][OpenAlexNext]_vars

\* two calls of generate_network on one NetworkGenerator with the same raw
\* data, every list present, and the same arguments
InitNetAgain ==
    /\ MergeIdle /\ AnalyzerIdle /\ CliIdle /\ CallerIdle /\ OpenAlexIdle /\ FetchIdle /\ NetInit
    /\ \A i \in 1..Len(citations_data) :
          citations_data[i].references.kind = "list" /\ citations_data[i].citations.kind = "list"
    /\ g_args.min_strength = 1
NetAgainNext ==
    \/ ExtractAndMap
    \/ GenerateLinks
    \/ FetchNodeMetadata
    \/ BuildNetwork
    \/ CallAgain
SpecNetAgain == InitNetAgain /\ [][NetAgainNext]_vars

(***************************************************************************)
(* Properties of the provider merge (checked under SpecMerge).             *)
(***************************************************************************)
\* what the provider adapters did, read off the environment
AdapterCalled(p) == adapter_out[p] # None
AdapterRaised(p) == AdapterCalled(p) /\ Val(adapter_out[p]).raises
AdapterSet(p) == IF AdapterCalled(p) THEN Range(Val(adapter_out[p]).value) ELSE {}
MergeDone == m_ret # None
NoDuplicates(l) == \A i, j \in 1..Len(l) : l[i] = l[j] => i = j
OtherProvider(p) == CHOOSE q \in Providers : q # p
ProviderCount(st, p) == IF p = "OpenAlex" THEN st.OpenAlex ELSE st.SemanticScholar
ProviderUnique(st, p) ==
    IF p = "OpenAlex" THEN st.OpenAlex_unique ELSE st.SemanticScholar_unique

\* C1: when both providers return lists A and B (duplicates allowed), the merged
\* list holds exactly the elements of A \cup B, each once, and the stats of the
\* *_with_stats methods are Total_unique = |A \cup B|, Overlap = |A \cap B|,
\* OpenAlex_unique = |A \ B|, SemanticScholar_unique = |B \ A|, so that
\* Total_unique = OpenAlex_unique + SemanticScholar_unique + Overlap.
C1_MergeUnionAndStats ==
    (MergeDone /\ \A p \in Providers : AdapterCalled(p) /\ ~AdapterRaised(p)) =>
        LET A == AdapterSet("OpenAlex")
            B == AdapterSet("SemanticScholar")
            r == Val(m_ret)
        IN  /\ ~r.raised
            /\ Range(r.merged) = A \cup B
            /\ NoDuplicates(r.merged)
            /\ m_call.with_stats =>
                  /\ r.stats # None
                  /\ Val(r.stats).Total_unique = Cardinality(A \cup B)
                  /\ Val(r.stats).Overlap = Cardinality(A \cap B)
                  /\ Val(r.stats).OpenAlex_unique = Cardinality(A \ B)
                  /\ Val(r.stats).SemanticScholar_unique = Cardinality(B \ A)
                  /\ Val(r.stats).OpenAlex = Cardinality(A)
                  /\ Val(r.stats).SemanticScholar = Cardinality(B)
                  /\ Val(r.stats).Total_unique =
                        Val(r.stats).OpenAlex_unique
                        + Val(r.stats).SemanticScholar_unique
                        + Val(r.stats).Overlap

\* C1 witness: a *_with_stats call returned for A = {x, y}, B = {y, z}:
\* three merged elements, overlap 1, one unique element on each side.
C1_Witness ==
    /\ MergeDone
    /\ m_call.with_stats
    /\ \A p \in Providers : AdapterCalled(p) /\ ~AdapterRaised(p)
    /\ Cardinality(AdapterSet("OpenAlex")) = 2
    /\ Cardinality(AdapterSet("SemanticScholar")) = 2
    /\ Cardinality(AdapterSet("OpenAlex") \cap AdapterSet("SemanticScholar")) = 1
    /\ Len(Val(m_ret).merged) = 3
    /\ Val(Val(m_ret).stats).Total_unique = 3

\* C2: when exactly one provider adapter raises, the merge does not raise; it
\* returns the other provider's result, deduplicated, and the stats count the
\* failing provider as 0, its unique count as 0 and the overlap as 0.
C2_OneProviderFails ==
    \A p \in Providers :
        (MergeDone /\ AdapterRaised(p)
            /\ AdapterCalled(OtherProvider(p)) /\ ~AdapterRaised(OtherProvider(p))) =>
            LET r == Val(m_ret)
            IN  /\ ~r.raised
                /\ Range(r.merged) = AdapterSet(OtherProvider(p))
                /\ NoDuplicates(r.merged)
                /\ m_call.with_stats =>
                      /\ r.stats # None
                      /\ ProviderCount(Val(r.stats), p) = 0
                      /\ ProviderUnique(Val(r.stats), p) = 0
                      /\ Val(r.stats).Overlap = 0
                      /\ Val(r.stats).Total_unique =
                            Cardinality(AdapterSet(OtherProvider(p)))

\* C2 witness: a *_with_stats call returned although OpenAlex raised, with the
\* two distinct identifiers Semantic Scholar delivered.
C2_Witness ==
    /\ MergeDone
    /\ m_call.with_stats
    /\ AdapterRaised("OpenAlex")
    /\ AdapterCalled("SemanticScholar") /\ ~AdapterRaised("SemanticScholar")
    /\ Cardinality(AdapterSet("SemanticScholar")) = 2
    /\ ~Val(m_ret).raised
    /\ Len(Val(m_ret).merged) = 2

(***************************************************************************)
(* Properties of the analyzer and the command line (checked under Spec).   *)
(***************************************************************************)
Seeds == initial_dois \cup initial_mag_ids
\* what the client did when asked for direction d of seed s
ClientAsked(s, d) == s \in DOMAIN api_out /\ api_out[s][d] # None
ClientRaised(s, d) == ClientAsked(s, d) /\ Val(api_out[s][d]).raises
ClientReturned(s, d) == ClientAsked(s, d) /\ ~Val(api_out[s][d]).raises
ClientList(s, d) == IF ClientReturned(s, d) THEN Val(api_out[s][d]).value ELSE <<>>
ClientSet(s, d) == Range(ClientList(s, d))
\* the seeds whose returned list for direction d holds x
SeedsListing(x, d) == {t \in Seeds : x \in ClientSet(t, d)}
Qualifies(x, s, d, threshold) ==
    /\ x \notin Seeds
    /\ s \in SeedsListing(x, d)
    /\ Cardinality(SeedsListing(x, d)) >= threshold
RowCount(rows, x, s) ==
    Cardinality({i \in 1..Len(rows) : rows[i].novel_doi = x /\ rows[i].initial_doi = s})
AnalysisDone == a_pc = "done" /\ a_mode = "analysis"
\* whether the run asks for direction d
Requested(d) ==
    \/ a_mode = "base"
    \/ d = "references" /\ min_references_n > 0
    \/ d = "citations" /\ min_citations_m > 0
Field(r, d) == IF d = "references" THEN r.references ELSE r.citations
Found(r, d) == IF d = "references" THEN r.references_found ELSE r.citations_found
Tally(d) == IF d = "references" THEN all_references ELSE all_citations
\* the seeds the tally of direction d holds under key x
TallySeeds(d, x) ==
    UNION {Range(Tally(d)[i].val) : i \in {j \in 1..Len(Tally(d)) : Tally(d)[j].key = x}}
RawEntries(s) == {i \in 1..Len(raw_data) : raw_data[i].key = s}
SummaryEntries(s) == {i \in 1..Len(summary_data) : summary_data[i].doi = s}

\* C3: no row of the backward or forward results names a seed (a member of
\* initial_dois or initial_mag_ids) as its novel_doi, also when seeds reference
\* or cite each other.
C3_NoSeedIsNovel ==
    /\ \A i \in 1..Len(backward_results) :
          backward_results[i].novel_doi \notin initial_dois \cup initial_mag_ids
    /\ \A i \in 1..Len(forward_results) :
          forward_results[i].novel_doi \notin initial_dois \cup initial_mag_ids

\* C3 witness: run_analysis returned backward rows although one seed's
\* reference list names another seed.
C3_Witness ==
    /\ AnalysisDone
    /\ Len(backward_results) > 0
    /\ \E s, t \in Seeds : s # t /\ t \in ClientSet(s, "references")

\* C4: for each analysed direction (threshold > 0) the returned rows hold the
\* pair (x, s) exactly once if x is no seed, x is in the list fetched for s and
\* at least threshold seeds have x in their fetched list, and not at all otherwise.
C4_RowsIffThreshold ==
    AnalysisDone =>
        /\ \A x \in Ids : \A s \in Seeds :
              /\ min_references_n > 0 =>
                    RowCount(backward_results, x, s) =
                        IF Qualifies(x, s, "references", min_references_n) THEN 1 ELSE 0
              /\ min_citations_m > 0 =>
                    RowCount(forward_results, x, s) =
                        IF Qualifies(x, s, "citations", min_citations_m) THEN 1 ELSE 0
        /\ \A i \in 1..Len(backward_results) :
              backward_results[i].novel_doi \in Ids /\ backward_results[i].initial_doi \in Seeds
        /\ \A i \in 1..Len(forward_results) :
              forward_results[i].novel_doi \in Ids /\ forward_results[i].initial_doi \in Seeds

\* C4 witness: two seeds, N = 2, one identifier referenced by both seeds and
\* another referenced by one only: exactly the two rows of the shared one.
C4_Witness ==
    /\ AnalysisDone
    /\ min_references_n = 2
    /\ Cardinality(Seeds) = 2
    /\ Len(backward_results) = 2
    /\ \E x \in Ids \ Seeds : Cardinality(SeedsListing(x, "references")) = 1

\* C6: run_analysis with both thresholds zero returns empty summaries, rows and
\* raw data without a single client call; and the command line without
\* --base-only given both thresholds zero exits with code 1 before the API
\* client is constructed, an analyzer exists or anything is fetched.
C6_BothThresholdsZero ==
    /\ (AnalysisDone /\ ~(min_references_n > 0) /\ ~(min_citations_m > 0)) =>
          /\ summary_data = <<>>
          /\ backward_results = <<>>
          /\ forward_results = <<>>
          /\ raw_data = <<>>
          /\ fetch_calls = 0
          /\ \A s \in DOMAIN api_out : \A d \in Directions : api_out[s][d] = None
    /\ (/\ cli_pc \notin {"lib", "start"}
        /\ ~cli_args.base_only
        /\ cli_args.n_threshold = 0
        /\ cli_args.m_threshold = 0) =>
          /\ cli_pc = "exit"
          /\ exit_code = Some(1)
          /\ ~client_built
          /\ a_pc = "idle"
          /\ fetch_calls = 0
          /\ api_out = <<>>

\* C6 witness: the command was given a RIS file alone, no --base-only and
\* -n 0 -m 0, and has exited.
C6_Witness ==
    /\ cli_pc = "exit"
    /\ cli_args.ris_file /\ ~cli_args.dois
    /\ ~cli_args.base_only
    /\ cli_args.n_threshold = 0
    /\ cli_args.m_threshold = 0
    /\ exit_code = Some(1)

\* C7: a client call that raises never aborts run_analysis or
\* run_base_collection. Once such a run has returned there is exactly one
\* summary record and one raw-data entry per seed; a direction that raised is
\* None in the seed's raw data, 0 in its summary record and absent from that
\* direction's tally; and every seed none of whose calls raised has the lists the
\* client returned in its raw data, their lengths in its summary record and its
\* novel identifiers in the tally, as in a run without the failure.
C7_FetchFailureIsolated ==
    /\ a_pc # "aborted"
    /\ (a_pc = "done" /\ \E s \in Seeds : \E d \in Directions : ClientRaised(s, d)) =>
          /\ Len(summary_data) = Cardinality(Seeds)
          /\ Len(raw_data) = Cardinality(Seeds)
          /\ \A s \in Seeds :
                /\ Cardinality(RawEntries(s)) = 1
                /\ Cardinality(SummaryEntries(s)) = 1
          /\ \A s \in Seeds : \A d \in Directions :
                LET raw == raw_data[CHOOSE i \in RawEntries(s) : TRUE]
                    summary == summary_data[CHOOSE i \in SummaryEntries(s) : TRUE]
                IN  /\ ClientRaised(s, d) =>
                          /\ Field(raw, d) = None
                          /\ Found(summary, d) = 0
                          /\ \A x \in Ids : s \notin TallySeeds(d, x)
                    /\ (Requested(d) /\ \A e \in Directions : ~ClientRaised(s, e)) =>
                          /\ ClientReturned(s, d)
                          /\ Field(raw, d) = Some(ClientList(s, d))
                          /\ Found(summary, d) = Len(ClientList(s, d))
                          /\ a_mode = "analysis" =>
                                \A x \in Ids :
                                    s \in TallySeeds(d, x) <=>
                                        (x \in ClientSet(s, d) /\ x \notin Seeds)

\* C7 witness: run_analysis returned; the references call of one seed raised,
\* that of the other seed returned a novel identifier, which is in the tally.
C7_Witness ==
    /\ AnalysisDone
    /\ \E s, t \in Seeds :
          /\ s # t
          /\ ClientRaised(s, "references")
          /\ ClientReturned(t, "references")
          /\ \E x \in Ids : t \in TallySeeds("references", x)

(***************************************************************************)
(* Properties of two calls on one analyzer (checked under SpecRerun).      *)
(***************************************************************************)
SecondDone == prev.ran /\ AnalysisDone
NovelIds(rows) == {r.novel_doi : r \in rows}
BackwardNovel == Cardinality(NovelIds(Range(backward_results)))
ForwardNovel == Cardinality(NovelIds(Range(forward_results)))
PrevBackwardNovel == Cardinality(NovelIds(prev.backward))
PrevForwardNovel == Cardinality(NovelIds(prev.forward))

\* C5 as stated: for all thresholds 0 <= N1 <= N2, the other threshold the
\* same, the run with N2 returns no more distinct novel identifiers backward than
\* the run with N1; likewise forward for 0 <= M1 <= M2.
C5_MonotoneFromZero ==
    SecondDone =>
        /\ (prev.m = min_citations_m /\ 0 <= prev.n /\ prev.n <= min_references_n) =>
              BackwardNovel <= PrevBackwardNovel
        /\ (prev.n = min_references_n /\ 0 <= prev.m /\ prev.m <= min_citations_m) =>
              ForwardNovel <= PrevForwardNovel

\* C5 amended: for all thresholds 1 <= N1 <= N2, the other threshold the same,
\* the run with N2 returns no more distinct novel identifiers backward than the
\* run with N1; likewise forward for 1 <= M1 <= M2.  (A threshold of 0 skips
\* its direction and returns nothing, so raising it from 0 can return more.)
C5_MonotoneFromOne ==
    SecondDone =>
        /\ (prev.m = min_citations_m /\ 1 <= prev.n /\ prev.n <= min_references_n) =>
              BackwardNovel <= PrevBackwardNovel
        /\ (prev.n = min_references_n /\ 1 <= prev.m /\ prev.m <= min_citations_m) =>
              ForwardNovel <= PrevForwardNovel

\* C5 witness: the first call with N = 1 returned more novel identifiers
\* backward than the second with N = 2, which still returned one.
C5_Witness ==
    /\ SecondDone
    /\ prev.m = min_citations_m
    /\ prev.n = 1
    /\ min_references_n = 2
    /\ BackwardNovel >= 1
    /\ BackwardNovel < PrevBackwardNovel

\* C8: two calls with the same thresholds and the same client answers return
\* the same set of backward rows, the same set of forward rows, the same
\* raw-data map and the same summary record per seed, whatever the order in
\* which each call went through the seeds.
C8_SeedOrderIrrelevant ==
    (SecondDone /\ prev.n = min_references_n /\ prev.m = min_citations_m) =>
        /\ Range(backward_results) = prev.backward
        /\ Range(forward_results) = prev.forward
        /\ Range(raw_data) = prev.raw
        /\ Range(summary_data) = prev.summary
        /\ \A s \in Seeds : Cardinality(RawEntries(s)) <= 1 /\ Cardinality(SummaryEntries(s)) <= 1

\* C8 witness: the second call took the two seeds in the other order than the
\* first, both with N = 1 and M = 1, and rows were returned in both directions.
C8_Witness ==
    /\ SecondDone
    /\ prev.n = 1 /\ min_references_n = 1
    /\ prev.m = 1 /\ min_citations_m = 1
    /\ Len(prev.order) = 2
    /\ prev.order # [i \in 1..Len(summary_data) |-> summary_data[i].doi]
    /\ backward_results # <<>>
    /\ forward_results # <<>>

(***************************************************************************)
(* Properties of the network generator (checked under SpecNet).            *)
(***************************************************************************)
Mapped == g_pc \in {"mapped", "linked", "fetched", "done"}
IdentifierOf(n) == CHOOSE x \in DOMAIN identifier_to_node_id : identifier_to_node_id[x] = n
KeyIndex(x) == CHOOSE i \in 1..Len(citations_data) : citations_data[i].key = x

\* C9: after _create_node_mappings over the candidate set S,
\* identifier_to_node_id maps S one-to-one onto 0 .. |S|-1 and gives the
\* lexicographically smaller of two identifiers the smaller id; being the only
\* such map, it depends on S alone.
C9_NodeIdsSortedBijection ==
    Mapped =>
        /\ DOMAIN identifier_to_node_id = g_all_identifiers
        /\ {identifier_to_node_id[x] : x \in g_all_identifiers}
              = 0..(Cardinality(g_all_identifiers) - 1)
        /\ \A x, y \in g_all_identifiers :
              x # y => identifier_to_node_id[x] # identifier_to_node_id[y]
        /\ \A x, y \in g_all_identifiers :
              StrLess(x, y) => identifier_to_node_id[x] < identifier_to_node_id[y]
        /\ node_counter = Cardinality(g_all_identifiers)

\* C9 witness: four candidates; the map's first key "2000001" is the largest
\* and gets 3, "10.1/a" gets 0, "10.1/b" 1 and "10.10/a" 2.
C9_Witness ==
    /\ Mapped
    /\ Cardinality(g_all_identifiers) = 4
    /\ citations_data[1].key = IdList[2]
    /\ identifier_to_node_id[IdList[2]] = 3
    /\ identifier_to_node_id[IdList[3]] = 0
    /\ identifier_to_node_id[IdList[1]] = 1
    /\ identifier_to_node_id[IdList[4]] = 2

\* C10 as stated: every link of every mode, for every key order of the
\* raw-data map, has source_id < target_id.
C10_SourceBelowTarget ==
    \A i \in 1..Len(links) : links[i].source_id < links[i].target_id

\* C10 amended: every link joins two different keys of the raw-data map, so
\* source_id # target_id; in bibliographic-coupling and co-citation mode the
\* source is the key that comes earlier in the map's key order; and
\* source_id < target_id exactly when the source key is the lexicographically
\* smaller of the two, which the key order does not ensure.
C10_SourceIsEarlierKey ==
    \A i \in 1..Len(links) :
        LET source == IdentifierOf(links[i].source_id)
            target == IdentifierOf(links[i].target_id)
        IN  /\ links[i].source_id # links[i].target_id
            /\ links[i].source_id \in 0..(node_counter - 1)
            /\ links[i].target_id \in 0..(node_counter - 1)
            /\ source \in keys_of(citations_data)
            /\ target \in keys_of(citations_data)
            /\ g_args.mode # "amsler" => KeyIndex(source) < KeyIndex(target)
            /\ links[i].source_id < links[i].target_id <=> StrLess(source, target)

\* C10 witness: generate_network returned a bibliographic-coupling link from
\* the first key "2000001" to the second key "10.1/b", source_id above target_id.
C10_Witness ==
    /\ g_pc = "done"
    /\ g_args.mode = "bibliographic_coupling"
    /\ Len(network_data.links) = 1
    /\ IdentifierOf(network_data.links[1].source_id) = IdList[2]
    /\ IdentifierOf(network_data.links[1].target_id) = IdList[1]
    /\ network_data.links[1].source_id > network_data.links[1].target_id

\* the two ends of a link, as a set
Ends(l) == {l.source_id, l.target_id}

\* C11: in every mode the link list holds no link from a node to itself and
\* no two links with the same unordered pair of ends.
C11_NoSelfNoDuplicateLinks ==
    /\ \A i \in 1..Len(links) : links[i].source_id # links[i].target_id
    /\ \A i, j \in 1..Len(links) : i # j => Ends(links[i]) # Ends(links[j])

\* C11 witness: generate_network returned three links, one for each pair of
\* three keys.
C11_Witness ==
    /\ g_pc = "done"
    /\ Len(citations_data) = 3
    /\ Len(network_data.links) = 3

Linked == g_pc \in {"linked", "fetched", "done"}
\* the item of the raw-data map under key a
ItemOf(a) == citations_data[KeyIndex(a)]
\* the links between the nodes of the keys a and b
LinksBetween(a, b) ==
    {i \in 1..Len(links) :
        Ends(links[i]) = {identifier_to_node_id[a], identifier_to_node_id[b]}}

\* C12: in bibliographic-coupling mode, for two different keys a, b that both
\* have a node id and a reference list, a link between a and b exists iff
\* |references(a) \cap references(b)| >= min_strength, and its strength is that
\* size (kept in halves), counted over the full lists whether or not the shared
\* references have a node id.
C12_BibliographicCoupling ==
    (Linked /\ g_args.mode = "bibliographic_coupling") =>
        \A a, b \in keys_of(citations_data) \cap g_all_identifiers :
            (/\ a # b
             /\ ItemOf(a).references.kind = "list"
             /\ ItemOf(b).references.kind = "list") =>
                LET shared == ItemOf(a).references.value \cap ItemOf(b).references.value
                IN  /\ LinksBetween(a, b) # {} <=> Cardinality(shared) >= g_args.min_strength
                    /\ \A i \in LinksBetween(a, b) :
                          links[i].strength = 2 * Cardinality(shared)

\* C12 witness: two keys share one reference, max_nodes = 2 removed it from
\* the node set, and the link of strength 1 is there.
C12_Witness ==
    /\ Linked
    /\ g_args.mode = "bibliographic_coupling"
    /\ g_args.max_nodes = 2
    /\ Len(citations_data) = 2
    /\ \E x \in Ids \ g_all_identifiers :
          \A i \in 1..2 : x \in citations_data[i].references.value
    /\ Len(links) = 1
    /\ links[1].strength = 2

\* C13: in co-citation mode the strength of two different keys a, b with a
\* node id is |citations(a) \cap citations(b) \cap NodeSet| when
\* include_cociting_nodes is false and |citations(a) \cap citations(b)| when it
\* is true; a link between a and b exists iff that strength is >= min_strength,
\* and carries it (in halves).
C13_CoCitation ==
    (Linked /\ g_args.mode = "co_citation") =>
        \A a, b \in keys_of(citations_data) \cap g_all_identifiers :
            a # b =>
                LET shared == ItemOf(a).citations.value \cap ItemOf(b).citations.value
                    counted == IF g_args.include_cociting_nodes
                                 THEN shared
                                 ELSE shared \cap g_all_identifiers
                IN  /\ LinksBetween(a, b) # {} <=> Cardinality(counted) >= g_args.min_strength
                    /\ \A i \in LinksBetween(a, b) :
                          links[i].strength = 2 * Cardinality(counted)

\* C13 witness: include_cociting_nodes is false, two keys are cited by the same
\* identifier, which has a node id because one key also references it, and
\* the link of strength 1 is there.
C13_Witness ==
    /\ Linked
    /\ g_args.mode = "co_citation"
    /\ ~g_args.include_cociting_nodes
    /\ Len(citations_data) = 2
    /\ \E x \in g_all_identifiers \ keys_of(citations_data) :
          \A i \in 1..2 : x \in citations_data[i].citations.value
    /\ Len(links) = 1
    /\ links[1].strength = 2

\* the links of a list as the set of (unordered pair of ends, strength)
PairStrengths(ls) == {<<Ends(ls[i]), ls[i].strength>> : i \in 1..Len(ls)}
AmslerWith(lambda) == g_args.mode = "amsler" /\ g_args.amsler_lambda = lambda
\* the links have just been generated (they stay as they are until the return)
JustLinked == g_pc = "linked"
\* the call raised while generating the links, not before
RaisedInLinks ==
    g_pc = "raised" /\ ~extract_raises(citations_data, g_args.include_cociting_nodes)

\* Amsler mode with lambda 1.0, where it returns links, returns those of
\* bibliographic coupling for the same map, node ids and min_strength.
AmslerOneLinksAsCoupling ==
    (JustLinked /\ AmslerWith(2)) =>
        PairStrengths(links)
            = PairStrengths(bibliographic_coupling_links(citations_data,
                                identifier_to_node_id, g_args.min_strength))

\* Amsler mode with lambda 1.0 raises while generating links only where
\* bibliographic coupling raises too.
AmslerOneRaisesAsCoupling ==
    (RaisedInLinks /\ AmslerWith(2)) => references_raise(citations_data)

\* C14 as stated: for every raw-data map, min_strength, max_nodes and
\* include_cociting_nodes, Amsler mode with lambda 1.0 yields the same set of
\* (unordered pair of ends, strength) links as bibliographic-coupling mode.
C14_AmslerOneIsCoupling == AmslerOneLinksAsCoupling /\ AmslerOneRaisesAsCoupling

\* Amsler mode with lambda 0.0 raises while generating links only where
\* co-citation mode raises too.
AmslerZeroRaisesAsCoCitation ==
    (RaisedInLinks /\ AmslerWith(0)) => citations_raise(citations_data)

\* C15 as stated: for every raw-data map, min_strength, max_nodes and
\* include_cociting_nodes (false and true), Amsler mode with lambda 0.0 yields
\* the same set of (unordered pair of ends, strength) links as co-citation mode
\* with the same arguments.
C15_AmslerZeroIsCoCitation ==
    /\ (JustLinked /\ AmslerWith(0)) =>
          PairStrengths(links)
              = PairStrengths(co_citation_links(citations_data, identifier_to_node_id,
                                  g_args.min_strength, g_args.include_cociting_nodes))
    /\ AmslerZeroRaisesAsCoCitation

\* C15 amended: Amsler mode with lambda 0.0 yields the links of co-citation
\* over the full citation lists, which are the links of co-citation mode with
\* the same arguments when include_cociting_nodes is true; when it is false,
\* co-citation mode counts only shared citers with a node id and Amsler mode
\* still counts all, so the two agree only where every shared citer has a node id.
C15_AmslerZeroIsFullCoCitation ==
    /\ (JustLinked /\ AmslerWith(0)) =>
          /\ PairStrengths(links)
                = PairStrengths(co_citation_links(citations_data, identifier_to_node_id,
                                    g_args.min_strength, TRUE))
          /\ (\A i \in 1..Len(citations_data) :
                 citations_data[i].citations.value \subseteq g_all_identifiers) =>
                PairStrengths(links)
                    = PairStrengths(co_citation_links(citations_data, identifier_to_node_id,
                                        g_args.min_strength, g_args.include_cociting_nodes))
    /\ AmslerZeroRaisesAsCoCitation

\* C15 witness: include_cociting_nodes is false, two keys share a citer without
\* a node id; Amsler mode with lambda 0.0 links them, co-citation mode would not.
C15_Witness ==
    /\ Linked
    /\ AmslerWith(0)
    /\ ~g_args.include_cociting_nodes
    /\ Len(links) = 1
    /\ co_citation_links(citations_data, identifier_to_node_id, g_args.min_strength,
                         FALSE) = <<>>

NetReturned == g_pc = "done"
ItemIds == {network_data.items[i].id : i \in 1..Len(network_data.items)}
\* node n is an end of a returned link
IsEnd(n) == \E i \in 1..Len(network_data.links) : n \in Ends(network_data.links[i])

\* C16: every node of the returned item list is an end of a returned link; a
\* candidate identifier without a link reaching min_strength, seed or not, has
\* no item.
C16_OnlyLinkedNodes ==
    NetReturned =>
        /\ \A n \in ItemIds : IsEnd(n)
        /\ \A x \in g_all_identifiers :
              ~IsEnd(identifier_to_node_id[x]) => identifier_to_node_id[x] \notin ItemIds

\* C16 witness: three keys with node ids, one link, two items; the third key
\* has no item.
C16_Witness ==
    /\ NetReturned
    /\ Len(citations_data) = 3
    /\ keys_of(citations_data) \subseteq g_all_identifiers
    /\ Len(network_data.links) = 1
    /\ Len(network_data.items) = 2
    /\ \E x \in keys_of(citations_data) : identifier_to_node_id[x] \notin ItemIds

(***************************************************************************)
(* The node limit.                                                         *)
(***************************************************************************)
NetSeeds == keys_of(citations_data)
Candidates == extract_all_identifiers(citations_data, g_args.include_cociting_nodes)
Limited == /\ Mapped
           /\ g_args.max_nodes # 0
           /\ Cardinality(Candidates) > g_args.max_nodes

\* C17: when max_nodes is set, the candidate set is larger than max_nodes and
\* there are at most max_nodes seeds, the identifiers that get node ids are
\* every seed plus non-seed candidates, exactly max_nodes of them.
C17_SeedsKeptAndFilled ==
    Limited /\ Cardinality(NetSeeds) <= g_args.max_nodes =>
        /\ NetSeeds \subseteq g_all_identifiers
        /\ g_all_identifiers \subseteq Candidates
        /\ Cardinality(g_all_identifiers) = g_args.max_nodes
        /\ DOMAIN identifier_to_node_id = g_all_identifiers
        /\ node_counter = g_args.max_nodes

\* one seed with two references and room for two nodes: one reference is dropped
C17_Witness ==
    /\ Limited /\ Cardinality(NetSeeds) = 1 /\ g_args.max_nodes = 2
    /\ Cardinality(Candidates) = 3
    /\ Cardinality(g_all_identifiers \ NetSeeds) = 1
    /\ Candidates \ g_all_identifiers # {}

HasNullList ==
    \E i \in 1..Len(citations_data) :
        \/ citations_data[i].references.kind = "null"
        \/ citations_data[i].citations.kind = "null"

\* C20: generate_network takes raw data in which a paper's 'references' or
\* 'citations' value is null and completes without raising.
C20_NullListsAccepted == HasNullList => g_pc # "raised"

(***************************************************************************)
(* A repeated call of generate_network (checked under SpecNetAgain).       *)
(***************************************************************************)
Triple(l) == <<l.source_id, l.target_id, l.strength>>
\* the multiset of (source_id, target_id, strength) of a list of links
TripleBag(ls) ==
    [t \in {Triple(ls[i]) : i \in 1..Len(ls)} |->
        Cardinality({i \in 1..Len(ls) : Triple(ls[i]) = t})]
SecondReturned == g_prev.ran /\ g_pc = "done"

\* C19: a second call of generate_network with the same raw data and the same
\* arguments returns the same multiset of (source_id, target_id, strength)
\* triples and the same set of node ids as the first.
C19_SameNetworkTwice ==
    SecondReturned =>
        /\ TripleBag(network_data.links) = TripleBag(g_prev.links)
        /\ ItemIds = {g_prev.items[i].id : i \in 1..Len(g_prev.items)}

(***************************************************************************)
(* Node metadata (checked under SpecNet).                                  *)
(***************************************************************************)
Queried == Range(metadata_queries)
LinkEndIdentifiers ==
    {x \in DOMAIN identifier_to_node_id :
        \E i \in 1..Len(links) : identifier_to_node_id[x] \in Ends(links[i])}

\* C21: the metadata provider is asked only for identifiers that are an end
\* of a link, at most once each and not before the links are computed; a
\* query that raises or returns nothing never makes generate_network raise,
\* and every end of a link is an item of the returned network whatever its
\* query did.
C21_MetadataForLinkedOnly ==
    /\ Queried \subseteq LinkEndIdentifiers
    /\ \A i, j \in 1..Len(metadata_queries) :
          metadata_queries[i] = metadata_queries[j] => i = j
    /\ g_pc \in {"call", "mapped", "linked", "raised"} =>
          metadata_queries = <<>> /\ node_metadata = <<>>
    /\ g_pc \in {"fetched", "done"} =>
          \A x \in LinkEndIdentifiers : identifier_to_node_id[x] \in DOMAIN node_metadata
    /\ NetReturned =>
          \A x \in LinkEndIdentifiers : identifier_to_node_id[x] \in ItemIds

\* a returned network with an item whose query gave no work, an item whose
\* query gave a work, and a mapped identifier that is in no link
C21_Witness ==
    /\ NetReturned
    /\ \E x \in Queried : /\ identifier_to_node_id[x] \in ItemIds
                          /\ ~node_metadata[identifier_to_node_id[x]].from_work
    /\ \E x \in Queried : node_metadata[identifier_to_node_id[x]].from_work
    /\ \E x \in DOMAIN identifier_to_node_id : x \notin LinkEndIdentifiers

(***************************************************************************)
(* The two concurrent provider calls of a merge (checked under SpecMerge). *)
(***************************************************************************)
\* what a provider contributes: its list as a set, nothing when it raised
Contribution(p) == IF AdapterRaised(p) THEN {} ELSE AdapterSet(p)

\* C22: a merge call returns only after both provider calls have completed or
\* failed and both have been collected; whatever the order in which the two
\* ran and completed, the returned set and stats are those of the two
\* providers' outcomes, each outcome kept and counted under its own provider.
C22_MergeWaitsForBoth ==
    MergeDone =>
        /\ \A p \in Providers :
              /\ AdapterCalled(p)
              /\ future[p] # None
              /\ results[p] # None
              /\ Range(Val(results[p])) = Contribution(p)
        /\ ~Val(m_ret).raised
        /\ Range(Val(m_ret).merged) = Contribution("OpenAlex") \cup Contribution("SemanticScholar")
        /\ m_call.with_stats =>
              /\ Val(m_ret).stats # None
              /\ \A p \in Providers :
                    /\ ProviderCount(Val(Val(m_ret).stats), p) = Cardinality(Contribution(p))
                    /\ ProviderUnique(Val(Val(m_ret).stats), p) =
                          Cardinality(Contribution(p) \ Contribution(OtherProvider(p)))

\* a returned call with stats where OpenAlex delivered two identifiers and
\* Semantic Scholar one other, counted 2 and 1
C22_Witness ==
    /\ MergeDone /\ m_call.with_stats
    /\ Cardinality(Contribution("OpenAlex")) = 2
    /\ Cardinality(Contribution("SemanticScholar")) = 1
    /\ Contribution("OpenAlex") \cap Contribution("SemanticScholar") = {}
    /\ Val(Val(m_ret).stats).OpenAlex = 2
    /\ Val(Val(m_ret).stats).SemanticScholar = 1

(***************************************************************************)
(* The OpenAlex adapter under rate limiting (checked under SpecOpenAlex).  *)
(***************************************************************************)
OaReturned == oa_pc = "done"
FirstRateLimited == Len(oa_requests) >= 1 /\ oa_requests[1] = RateLimited
FurtherAttempts == Len(oa_requests) - 1
\* between one and three further attempts, each after a longer wait than the
\* one before, and [] only when none of them yielded a list
RetriedWithBackoff ==
    /\ FurtherAttempts >= 1 /\ FurtherAttempts <= RetryCount
    /\ Len(oa_sleeps) = FurtherAttempts
    /\ \A i \in 1..Len(oa_sleeps) - 1 : oa_sleeps[i] < oa_sleeps[i + 1]
    /\ oa_ret # None /\ ~Val(oa_ret).raises
    /\ Val(oa_ret).value = oa_requests[Len(oa_requests)].value
    /\ oa_requests[Len(oa_requests)].kind # "list" => FurtherAttempts = RetryCount

\* C23: a call of get_references or get_citations whose fetch fails with a
\* rate-limit error is retried at least once and at most three times, with
\* growing waits, and returns [] only after every attempt has failed.
C23_RateLimitRetried == (OaReturned /\ FirstRateLimited) => RetriedWithBackoff

(***************************************************************************)
(* One call of _fetch_data_for_identifier (checked under SpecFetch).       *)
(***************************************************************************)
FetchReturned == f_pc = "done"
IsClientCall(e) == e.ev \in Directions
LogIndex(d) == CHOOSE i \in 1..Len(f_log) : f_log[i].ev = d
Called(d) == \E i \in 1..Len(f_log) : f_log[i].ev = d

\* C24: a pacing delay comes directly after a client call exactly when that
\* call returned a result, never after a call that raised, and the citations
\* call does not start before the delay that follows a successful references
\* call.
C24_PacingAfterSuccessOnly ==
    /\ \A i \in 1..Len(f_log) :
          f_log[i] = Sleep => i > 1 /\ IsClientCall(f_log[i - 1]) /\ f_log[i - 1].ok
    /\ \A i \in 1..Len(f_log) :
          (IsClientCall(f_log[i]) /\ f_log[i].ok /\ (i < Len(f_log) \/ FetchReturned)) =>
              i < Len(f_log) /\ f_log[i + 1] = Sleep
    /\ \A i \in 1..Len(f_log) :
          (IsClientCall(f_log[i]) /\ ~f_log[i].ok) => i = Len(f_log)
    /\ (Called("citations") /\ Called("references")) =>
          /\ f_log[LogIndex("references")].ok
          /\ LogIndex("citations") = LogIndex("references") + 2

\* both directions fetched with success: call, delay, call, delay
C24_Witness ==
    /\ FetchReturned
    /\ f_log = <<[ev |-> "references", ok |-> TRUE], Sleep,
                 [ev |-> "citations", ok |-> TRUE], Sleep>>

\* C30: with both directions requested, a references call that raises leaves
\* the citations call unmade and both lists None; a citations call that
\* raises after a successful references call leaves the references, and
\* their contribution stats, as fetched and only the citations None.
C30_PartialFetch ==
    (FetchReturned /\ f_args.fetch_references /\ f_args.fetch_citations) =>
        /\ Val(f_client["references"]).raises =>
              /\ ~Called("citations") /\ f_client["citations"] = None
              /\ f_locals = NoLocals
        /\ (~Val(f_client["references"]).raises /\ Val(f_client["citations"]).raises) =>
              /\ f_locals.references = Some(Val(f_client["references"]).value)
              /\ f_locals.citations = None
              /\ f_locals.api_contributions =
                    IF f_args.has_stats
                      THEN first_contribution(client_stats(Val(f_client["references"]).value))
                      ELSE None
        /\ LET ref_out == Val(f_client["references"])
               cit_out == IF f_client["citations"] = None THEN Raised
                          ELSE Val(f_client["citations"])
               f == fetch_data_for_identifier(ref_out, cit_out, TRUE, TRUE, f_args.has_stats)
           IN  /\ f.references = f_locals.references
               /\ f.citations = f_locals.citations
               /\ f.api_contributions = f_locals.api_contributions

\* the references arrived with their stats, the citations call raised
C30_Witness ==
    /\ FetchReturned /\ f_args.fetch_references /\ f_args.fetch_citations
    /\ f_args.has_stats
    /\ f_client["citations"] = Some(Raised)
    /\ f_locals.references # None /\ Len(Val(f_locals.references)) = 2
    /\ f_locals.api_contributions # None
    /\ f_locals.citations = None

(***************************************************************************)
(* More properties of run_analysis (checked under Spec).                   *)
(***************************************************************************)
Threshold(d) == IF d = "references" THEN min_references_n ELSE min_citations_m
Rows(d) == IF d = "references" THEN backward_results ELSE forward_results
Opposite(d) == IF d = "references" THEN "citations" ELSE "references"
RawOf(s) == raw_data[CHOOSE i \in RawEntries(s) : TRUE]
SummaryOf(s) == summary_data[CHOOSE i \in SummaryEntries(s) : TRUE]

\* C25: a threshold of 0 next to a positive one skips its own direction and
\* nothing else: the client is never asked for that direction, every seed's
\* raw data has None and its summary 0 there, the direction's rows are
\* empty; the other direction is fetched for every seed, recorded and
\* analysed as usual.
C25_ZeroSkipsOwnDirection ==
    \A d \in Directions :
        (AnalysisDone /\ Threshold(d) = 0 /\ Threshold(Opposite(d)) > 0) =>
            LET e == Opposite(d)
            IN  /\ \A s \in Seeds :
                      /\ ~ClientAsked(s, d)
                      /\ Cardinality(RawEntries(s)) = 1
                      /\ Cardinality(SummaryEntries(s)) = 1
                      /\ Field(RawOf(s), d) = None
                      /\ Found(SummaryOf(s), d) = 0
                      /\ ClientAsked(s, e)
                      /\ Field(RawOf(s), e) =
                            IF ClientReturned(s, e) THEN Some(ClientList(s, e)) ELSE None
                      /\ Found(SummaryOf(s), e) = Len(ClientList(s, e))
                /\ Rows(d) = <<>>
                /\ Tally(d) = <<>>
                /\ fetch_calls = Cardinality(Seeds)
                /\ \A x \in Ids : \A s \in Seeds :
                      RowCount(Rows(e), x, s) =
                          IF Qualifies(x, s, e, Threshold(e)) THEN 1 ELSE 0

\* N = 0 and M = 1 with two seeds: no backward rows, forward rows returned
C25_Witness ==
    /\ AnalysisDone
    /\ min_references_n = 0 /\ min_citations_m = 1
    /\ Cardinality(Seeds) = 2
    /\ \A s \in Seeds : ~ClientAsked(s, "references") /\ ClientReturned(s, "citations")
    /\ backward_results = <<>>
    /\ Len(forward_results) >= 2

Processed == Seeds \ pending
InAnalysis == a_mode = "analysis" /\ a_pc \in {"loop", "done"}

\* C26: an identifier that occurs several times in one seed's fetched list is
\* counted once for that seed: each tally entry lists distinct seeds, as many
\* as there are processed seeds whose list holds the identifier and so at
\* most as many as there are seeds, and no (novel, seed) row is returned twice.
C26_DuplicatesCountOnce ==
    InAnalysis =>
        \A d \in Directions :
            /\ \A i, j \in 1..Len(Tally(d)) : Tally(d)[i].key = Tally(d)[j].key => i = j
            /\ \A i \in 1..Len(Tally(d)) :
                  /\ NoDuplicates(Tally(d)[i].val)
                  /\ Len(Tally(d)[i].val) =
                        Cardinality(SeedsListing(Tally(d)[i].key, d) \cap Processed)
                  /\ Len(Tally(d)[i].val) <= Cardinality(Seeds)
            /\ \A x \in Ids : \A s \in Seeds : RowCount(Rows(d), x, s) <= 1

\* one seed's references name a novel identifier twice, another seed's once:
\* the tally lists the two seeds and two rows are returned
C26_Witness ==
    /\ AnalysisDone /\ min_references_n = 2
    /\ \E s, t \in Seeds : \E x \in Ids \ Seeds :
          /\ s # t
          /\ ClientList(s, "references") = <<x, x>>
          /\ ClientList(t, "references") = <<x>>
          /\ TallySeeds("references", x) = {s, t}
    /\ Len(backward_results) = 2

IsPrefix(a, b) == Len(a) <= Len(b) /\ \A i \in 1..Len(a) : a[i] = b[i]
\* the tally after a step keeps every entry of the tally before it, in place,
\* with the same key and a list that starts with the old list
Extends(old, new) ==
    /\ Len(old) <= Len(new)
    /\ \A i \in 1..Len(old) : new[i].key = old[i].key /\ IsPrefix(old[i].val, new[i].val)

\* C27: during a run of run_analysis the two tallies only grow: every step
\* keeps each entry and extends its list of seeds at the end, the lists hold
\* processed seeds only, no key is a seed, and the seed set stays as it was.
C27_TalliesOnlyGrow ==
    [][/\ Extends(all_references, all_references')
       /\ Extends(all_citations, all_citations')
       /\ \A d \in Directions : \A i \in 1..Len(Tally(d))' :
             /\ Range(Tally(d)[i].val)' \subseteq (Seeds \ pending)'
             /\ Tally(d)[i].key' \notin Seeds'
       /\ a_pc # "idle" =>
             /\ initial_dois' = initial_dois
             /\ initial_mag_ids' = initial_mag_ids
             /\ all_identifiers' = all_identifiers]_vars

\* a run over two seeds in which a backward tally entry was created by one
\* seed and extended by the other, and the forward tally has an entry too
C27_Witness ==
    /\ a_mode = "analysis" /\ a_pc = "done"
    /\ Cardinality(Seeds) = 2
    /\ \E i \in 1..Len(all_references) : Len(all_references[i].val) = 2
    /\ \E i \in 1..Len(all_citations) : Len(all_citations[i].val) = 1

(***************************************************************************)
(* The returned network (checked under SpecNet).                           *)
(***************************************************************************)
ReturnedLinks == network_data.links
ReturnedItems == network_data.items
ItemsWithId(n) == {i \in 1..Len(ReturnedItems) : ReturnedItems[i].id = n}
LinkEnds == UNION {Ends(ReturnedLinks[i]) : i \in 1..Len(ReturnedLinks)}

\* C28: in the returned network every source_id and target_id is the id of
\* exactly one item, no two items share an id, and the ids of the items are
\* exactly the ends of the links.
C28_ItemsAreLinkEnds ==
    NetReturned =>
        /\ \A i \in 1..Len(ReturnedLinks) :
              /\ Cardinality(ItemsWithId(ReturnedLinks[i].source_id)) = 1
              /\ Cardinality(ItemsWithId(ReturnedLinks[i].target_id)) = 1
        /\ \A i, j \in 1..Len(ReturnedItems) :
              ReturnedItems[i].id = ReturnedItems[j].id => i = j
        /\ {ReturnedItems[i].id : i \in 1..Len(ReturnedItems)} = LinkEnds

\* three papers linked pairwise: three links, three items
C28_Witness ==
    /\ NetReturned
    /\ Len(ReturnedLinks) = 3
    /\ Len(ReturnedItems) = 3
    /\ Cardinality(LinkEnds) = 3

IncidentLinks(n) == {i \in 1..Len(ReturnedLinks) : n \in Ends(ReturnedLinks[i])}
RECURSIVE StrengthOver(_)
StrengthOver(I) ==
    IF I = {} THEN 0
    ELSE LET i == CHOOSE j \in I : TRUE
         IN  ReturnedLinks[i].strength + StrengthOver(I \ {i})
RECURSIVE LinksFrom(_)
LinksFrom(i) ==
    IF i > Len(ReturnedItems) THEN 0 ELSE ReturnedItems[i].Links + LinksFrom(i + 1)

\* C29: for every item of the returned network 'Links' is the number of
\* returned links the node is an end of, at least 1, and 'Total link
\* strength' is the sum of their strengths; the 'Links' of all items add up
\* to twice the number of links.
C29_ItemWeights ==
    NetReturned =>
        /\ \A i \in 1..Len(ReturnedItems) :
              LET item == ReturnedItems[i]
              IN  /\ item.Links = Cardinality(IncidentLinks(item.id))
                  /\ item.Links >= 1
                  /\ item.total_link_strength = StrengthOver(IncidentLinks(item.id))
        /\ LinksFrom(1) = 2 * Len(ReturnedLinks)

\* three papers linked pairwise with strength 1.0 (two halves) each: every
\* item has two links and a total strength of 2.0
C29_Witness ==
    /\ NetReturned
    /\ Len(ReturnedLinks) = 3
    /\ \A i \in 1..Len(ReturnedLinks) : ReturnedLinks[i].strength = 2
    /\ \E i \in 1..Len(ReturnedItems) :
          /\ ReturnedItems[i].Links = 2
          /\ ReturnedItems[i].total_link_strength = 4

====
